---- MODULE Spec2Model ----
(***************************************************************************)
(* A model of the NASA API proxy: the image cache (cacheImageIfNeeded),    *)
(* the retry helper (fetchJsonWithRetry), the request deadline middleware  *)
(* and the /api/nasa/apod and /api/nasa/epic handlers.                     *)
(*                                                                         *)
(* Two programs of the repository are modelled.  The variable `variant`    *)
(* says which one a behaviour is a run of:                                 *)
(*   "server"  src/server.js (APOD only, HEAD preflight, deadline flag)    *)
(*   "epic"    src/unnamed/part_000 lines 486-1022 (APOD and EPIC, no      *)
(*             preflight, a deadline middleware that answers 504)          *)
(* Every await of the JavaScript is a step boundary: the code between two  *)
(* awaits runs atomically on the event loop and is one action.             *)
(***************************************************************************)
EXTENDS Integers, Sequences, FiniteSets, TLC

\* Number of inbound requests (and so of cacheImageIfNeeded calls) in flight.
NumReqs == 2

Reqs == 1..NumReqs

Null == [kind |-> "null"]

(***************************************************************************)
(* URLs.  A URL is the record of its parts, so that path.extname, the      *)
(* host tests and the query string are computed and not assumed.  `dirs`   *)
(* and `name` are sequences of strings, `ext` is "" or starts with ".".    *)
(***************************************************************************)
Url(host, dirs, name, ext, query) ==
  [kind |-> "url", scheme |-> "https", host |-> host, dirs |-> dirs,
   name |-> name, ext |-> ext, query |-> query]

\* A string that `new URL()` rejects (no scheme).
BadUrl ==
  [kind |-> "url", scheme |-> "", host |-> "", dirs |-> <<>>,
   name |-> <<"not-a-url">>, ext |-> "", query |-> ""]

\* new URL(sourceUrl) succeeds
IsValidUrl(u) == u.kind = "url" /\ u.scheme # ""

\* A calendar date "ccyy-mm-dd", kept as its parts.
Date(cc, yy, mm, dd) == [cc |-> cc, yy |-> yy, mm |-> mm, dd |-> dd]

\* path.join('nasa', 'apod', `apod_${dateStr}${ext}`)
ApodKey(date, ext) == <<"nasa", "apod", "apod_", date, ext>>

EarthriseUrl ==
  Url("apod.nasa.gov", <<"apod", "image", "1812">>, <<"earthrise_apollo8_4133">>, ".jpg", "")

ImgUrlA == Url("apod.nasa.gov", <<"apod", "image">>, <<"m31">>, ".jpg", "")
ImgUrlB == Url("apod.nasa.gov", <<"apod", "image">>, <<"m31_hd">>, ".jpg", "")

(***************************************************************************)
(* Configuration read from the environment at start-up, and the headers    *)
(* of a request that getPublicBase reads.                                  *)
(***************************************************************************)
VARIABLES
  variant,    \* which program runs: "server" or "epic"
  cfg,        \* [NASA_API_KEY, PUBLIC_BASE_URL], "" when unset
  files,      \* PUBLIC_DIR: existing path -> [state, src]
  call,       \* per request: the activation of cacheImageIfNeeded
  returned,   \* history: (sourceUrl, subpath) of the calls that have returned
  cachedOk,   \* history: subpaths for which a call has returned a URL
  fetch,      \* per request: the activation of fetchJsonWithRetry
  req,        \* per request: the route handler's activation and the deadline timer
  res,        \* per request: the response object
  clock,      \* the UTC date that new Date() reads
  budget      \* how many more failures the network and the disk may inject, or NoLimit

cacheVars == <<files, call, returned, cachedOk>>

\* req.get('x-forwarded-proto') etc.: the headers request r came with, and for
\* a request of which the model says nothing more the Host header "<r>".
ReqHeaders(r) ==
  IF req[r].headers # [kind |-> "null"] THEN req[r].headers
  ELSE [xfproto |-> "", protocol |-> "http", xfhost |-> "", host |-> ToString(r)]

\* The values of PUBLIC_BASE_URL of the model, and PUBLIC_BASE_URL.startsWith('http').
BaseUrls == {"", "https://cdn.example.com", "cdn.example.com"}
StartsWithHttp(s) == s = "https://cdn.example.com"

\* (...).split(',')[0].trim() on the protocol values of the model.
FirstProto(p) == IF p = "https, http" THEN "https" ELSE p

\* getPublicBase(req): the base as the sequence of its parts, <<>> for ''.
getPublicBase(hdr) ==
  IF cfg.PUBLIC_BASE_URL # "" /\ StartsWithHttp(cfg.PUBLIC_BASE_URL)
    THEN <<cfg.PUBLIC_BASE_URL>>
    ELSE LET proto == FirstProto(IF hdr.xfproto # "" THEN hdr.xfproto
                                 ELSE IF hdr.protocol # "" THEN hdr.protocol ELSE "http")
             host == IF hdr.xfhost # "" THEN hdr.xfhost ELSE hdr.host
         IN IF host = "" THEN <<>> ELSE <<proto, "://", host>>

\* `${base}/cdn/${subpath}`
CdnUrl(r, subpath) ==
  [kind |-> "cdn", base |-> getPublicBase(ReqHeaders(r)), subpath |-> subpath]

(***************************************************************************)
(* The content store.  fs.existsSync is true as soon as the path exists,   *)
(* whatever has been written to it.                                        *)
(***************************************************************************)
\* Mutant: the existence check looks at a path that never exists.
existsSyncNever(k) == FALSE

existsSync(k) == k \in DOMAIN files

\* The calls that hold an open write stream on path k.
Writers(k) == {c \in Reqs : call[c].pc = "pipe" /\ call[c].subpath = k}

\* fs.createWriteStream(localPath) opening the path: flags 'w' create or truncate.
FileOpened(k, u) ==
  [x \in DOMAIN files \cup {k} |->
     IF x = k THEN [state |-> "partial", src |-> u] ELSE files[x]]

\* Mutant: the finished download is not left under PUBLIC_DIR/subpath.
FileFinishedLost(c, k, u) == {[x \in DOMAIN files \ {k} |-> files[x]]}

\* The write stream of call c finishing: all bytes of its response are written.
\* Another stream still open on the path may have truncated it meanwhile, so the
\* content is then either whole or not.
FileFinished(c, k, u) ==
  {[files EXCEPT ![k] = [state |-> s, src |-> u]] :
     s \in IF Writers(k) \ {c} = {} THEN {"complete"} ELSE {"complete", "partial"}}

(***************************************************************************)
(* cacheImageIfNeeded(sourceUrl, subpath, req).                            *)
(*                                                                         *)
(* call[c] is the activation that request c is awaiting.  Its pc names the *)
(* await it is suspended at:                                               *)
(*   ensureDir  await ensureDir(localDir)                                  *)
(*   dns        await dns.promises.lookup          (server.js only)        *)
(*   head       await axiosImageClient.head        (server.js only)        *)
(*   get        await axios...get(sourceUrl, {responseType: 'stream'})     *)
(*   open       the write stream is created, the path not yet opened       *)
(*   pipe       the response is being piped into the open path             *)
(*   sleep      await new Promise(r => setTimeout(r, delay))               *)
(*   returned   the call has returned `result`                             *)
(*   hung       the piping promise can no longer settle                    *)
(* The locals `success` and `lastErr` only decide between the two returns  *)
(* and are folded into the control flow.  The fields last, nHead, nGet,    *)
(* nOpen, delays, sawFile, reopened, afterSame and afterOk are history:    *)
(* `last` is the answer (GET status, or a HEAD 404) that the current       *)
(* attempt of the loop has received, the others count since the call.      *)
(***************************************************************************)
\* for (let i = 1; i <= 3; i++)
ImageAttempts == 3
\* const delay = 300 * Math.pow(2, i - 1)
ImageBaseDelayMs == 300

\* Status of a response; 0 stands for "no response" (e.response is undefined).
NoStatus == 0
HeadStatuses == {200, 404, 405, 403, 503, NoStatus}
GetStatuses == {200, 404, 403, 429, 503, NoStatus}

\* What a GET of u can answer: axios rejects an unparsable URL without a status.
GetOutcomes(u) == IF IsValidUrl(u) THEN GetStatuses ELSE {NoStatus}

IdleCall ==
  [pc |-> "idle", sourceUrl |-> Null, subpath |-> <<>>, i |-> 1, result |-> Null,
   last |-> [op |-> "none", st |-> NoStatus], nHead |-> 0, nGet |-> 0, nOpen |-> 0,
   delays |-> <<>>, sawFile |-> FALSE, reopened |-> FALSE,
   afterSame |-> FALSE, afterOk |-> FALSE]

\* Mutant: an attempt starts with the GET.
AttemptEntryNoPreflight(u) == "get"

\* Where an attempt of the download loop starts: the preflight of server.js is
\* skipped when new URL(sourceUrl) throws; part_000 has no preflight.
AttemptEntry(u) == IF variant = "server" /\ IsValidUrl(u) THEN "dns" ELSE "get"

\* Mutant: a failed download returns the public URL all the same.
FailedWithUrl(cr) == [cr EXCEPT !.pc = "returned", !.result = CdnUrl(1, cr.subpath)]

\* throw lastErr -> catch (e) { return null; }
Failed(cr) == [cr EXCEPT !.pc = "returned", !.result = Null]

\* Mutant: every HEAD that is not answered with 200 ends the call.
HeadIsFatalUnlessOk(st) == st # 200

\* if (head.status === 404) break;
HeadIsFatal(st) == st = 404

\* Mutant: the 404 of a GET is retried like any other error.
GetIsFatalNever(st) == FALSE

\* if (status === 404) break;
GetIsFatal(st) == st = 404

\* Mutant: the delay does not grow with the attempt.
BackoffDelayFlat(i) == ImageBaseDelayMs

\* const delay = 300 * Math.pow(2, i - 1);
BackoffDelay(i) == ImageBaseDelayMs * 2^(i - 1)

\* The catch block of the download loop, entered with e.response?.status = st.
AfterCatch(cr, st) ==
  IF GetIsFatal(st) THEN Failed(cr)
  ELSE IF cr.i < ImageAttempts
         THEN [cr EXCEPT !.pc = "sleep", !.delays = Append(@, BackoffDelay(cr.i))]
         ELSE Failed(cr)

\* The environment may fail a request or a write while its budget lasts.
NoLimit == [limited |-> FALSE, left |-> 0]
AtMost(n) == [limited |-> TRUE, left |-> n]
CanFail == ~budget.limited \/ budget.left > 0
Spend(fault) == IF fault /\ budget.limited THEN AtMost(budget.left - 1) ELSE budget

\* The step of call c that leaves it as cr and the store as f; `fault` tells
\* whether the environment failed it.
Commit(c, cr, f, fault) ==
  /\ fault => CanFail
  /\ budget' = Spend(fault)
  /\ call' = [call EXCEPT ![c] = cr]
  /\ files' = f
  /\ IF cr.pc = "returned"
       THEN /\ returned' = returned \cup {<<cr.sourceUrl, cr.subpath>>}
            /\ cachedOk' = IF cr.result # Null THEN cachedOk \cup {cr.subpath} ELSE cachedOk
       ELSE UNCHANGED <<returned, cachedOk>>
  /\ UNCHANGED <<variant, cfg, fetch, req, res, clock>>

\* The call cacheImageIfNeeded(u, k, req) is made; it suspends at ensureDir.
Enter(c, u, k) ==
  /\ call' = [call EXCEPT ![c] =
                [IdleCall EXCEPT !.pc = "ensureDir", !.sourceUrl = u, !.subpath = k,
                                 !.afterSame = (<<u, k>> \in returned),
                                 !.afterOk = (k \in cachedOk)]]
  /\ UNCHANGED <<files, returned, cachedOk>>

\* Mutant: the caller goes on while the call is still running.
CallSettledEarly(cr) == cr.pc \notin {"idle", "ensureDir"}

\* await cacheImageIfNeeded(...): the caller resumes when the call has returned.
CallSettled(cr) == cr.pc = "returned"

\* if (!fs.existsSync(localPath)) { ...download loop... } else { hit }
ExistsCheck(c) ==
  /\ call[c].pc = "ensureDir"
  /\ LET cr == [call[c] EXCEPT !.sawFile = (call[c].subpath \in DOMAIN files)]
     IN IF ~existsSync(cr.subpath)
          THEN Commit(c, [cr EXCEPT !.pc = AttemptEntry(cr.sourceUrl), !.i = 1], files, FALSE)
          ELSE Commit(c, [cr EXCEPT !.pc = "returned",
                                    !.result = CdnUrl(c, cr.subpath)], files, FALSE)

\* dns.promises.lookup: its outcome is only traced.
DnsLookup(c) ==
  /\ call[c].pc = "dns"
  /\ Commit(c, [call[c] EXCEPT !.pc = "head"], files, FALSE)

\* axiosImageClient.head(sourceUrl, {validateStatus: () => true}); an error is swallowed.
HeadPreflight(c) ==
  /\ call[c].pc = "head"
  /\ \E st \in HeadStatuses :
       LET cr == [call[c] EXCEPT !.nHead = @ + 1,
                                 !.last = IF st = 404 THEN [op |-> "HEAD", st |-> st] ELSE @]
       IN IF HeadIsFatal(st)
            THEN Commit(c, Failed(cr), files, TRUE)
            ELSE Commit(c, [cr EXCEPT !.pc = "get"], files, st # 200)

\* The GET of the image: a 2xx answer hands over the stream, anything else throws.
GetImage(c) ==
  /\ call[c].pc = "get"
  /\ \E st \in GetOutcomes(call[c].sourceUrl) :
       LET cr == [call[c] EXCEPT !.nGet = @ + 1, !.last = [op |-> "GET", st |-> st]]
       IN IF st = 200
            THEN Commit(c, [cr EXCEPT !.pc = "open"], files, FALSE)
            ELSE Commit(c, AfterCatch(cr, st), files, TRUE)

\* fs.createWriteStream(localPath) opens the final path, or emits 'error'.
OpenFile(c) ==
  /\ call[c].pc = "open"
  /\ \/ Commit(c, [call[c] EXCEPT !.pc = "pipe", !.nOpen = @ + 1,
                                   !.reopened = @ \/ (call[c].subpath \in DOMAIN files)],
               FileOpened(call[c].subpath, call[c].sourceUrl), FALSE)
     \/ Commit(c, AfterCatch(call[c], NoStatus), files, TRUE)

\* resp.data.pipe(w): 'finish' resolves, a write 'error' rejects, and an error or a
\* stall of the response stream settles nothing.
PipeStream(c) ==
  /\ call[c].pc = "pipe"
  /\ \/ \E f \in FileFinished(c, call[c].subpath, call[c].sourceUrl) :
          Commit(c, [call[c] EXCEPT !.pc = "returned",
                                    !.result = CdnUrl(c, call[c].subpath)], f, FALSE)
     \/ Commit(c, AfterCatch(call[c], NoStatus), files, TRUE)
     \/ Commit(c, [call[c] EXCEPT !.pc = "hung"], files, TRUE)

\* The backoff timer fires: i++ and the next attempt starts.
SleepDone(c) ==
  /\ call[c].pc = "sleep"
  /\ Commit(c, [call[c] EXCEPT !.pc = AttemptEntry(call[c].sourceUrl), !.i = @ + 1,
                                !.last = IdleCall.last], files, FALSE)

(***************************************************************************)
(* fetchJsonWithRetry(url, {attempts, initialDelayMs}).                    *)
(*                                                                         *)
(* fetch[r] is the activation that request r is awaiting; pc is            *)
(*   get       await axiosClient.get(url, {responseType: 'json'})          *)
(*   sleep     await new Promise(r => setTimeout(r, delay))                *)
(*   returned  it has returned `data`                                      *)
(*   threw     it has thrown lastErr                                       *)
(* nGet and delays are history.                                            *)
(***************************************************************************)
\* { attempts = 2, initialDelayMs = 250 }
DefaultAttempts == 2
DefaultInitialDelayMs == 250

\* let lastErr = null
NoErr == -1

FetchStatuses == {200, 404, 429, 503, NoStatus}

IdleFetch ==
  [pc |-> "idle", attempts |-> DefaultAttempts, initialDelayMs |-> DefaultInitialDelayMs,
   i |-> 1, lastErr |-> NoErr, data |-> Null, nGet |-> 0, delays |-> <<>>]

\* Mutant: no status ends the loop.
IsClientErrorNever(st) == FALSE

\* if (status && status >= 400 && status < 500 && status !== 429) break;
IsClientError(st) == st # NoStatus /\ st >= 400 /\ st < 500 /\ st # 429

\* const delay = initialDelayMs * Math.pow(2, i - 1);
FetchDelay(initialDelayMs, i) == initialDelayMs * 2^(i - 1)

\* throw lastErr || new Error('Request failed')
Threw(fr) == [fr EXCEPT !.pc = "threw"]

\* The loop header `i <= attempts`, entered with the counter at i.
FetchLoop(fr, i) ==
  IF i <= fr.attempts THEN [fr EXCEPT !.pc = "get", !.i = i] ELSE Threw(fr)

\* The call fetchJsonWithRetry(url, {attempts: n, initialDelayMs: d}) is made.
FetchEnter(r, n, d) ==
  fetch' = [fetch EXCEPT ![r] =
              FetchLoop([IdleFetch EXCEPT !.attempts = n, !.initialDelayMs = d], 1)]

\* The GET answers: data of a 2xx is returned; an error goes through the catch block.
FetchGet(r, Data) ==
  /\ fetch[r].pc = "get"
  /\ UNCHANGED <<variant, cfg, cacheVars, req, res, clock>>
  /\ \E st \in FetchStatuses :
       LET fr == [fetch[r] EXCEPT !.nGet = @ + 1]
       IN /\ st # 200 => CanFail
          /\ budget' = Spend(st # 200)
          /\ IF st = 200
                 THEN \E d \in Data :
                        fetch' = [fetch EXCEPT ![r] = [fr EXCEPT !.pc = "returned", !.data = d]]
                 ELSE LET er == [fr EXCEPT !.lastErr = st]
                      IN fetch' = [fetch EXCEPT ![r] =
                           IF IsClientError(st) THEN Threw(er)
                           ELSE IF er.i < er.attempts
                                  THEN [er EXCEPT !.pc = "sleep",
                                                  !.delays = Append(@, FetchDelay(er.initialDelayMs, er.i))]
                                  ELSE FetchLoop(er, er.i + 1)]

\* The backoff timer fires: i++ and the loop goes on.
FetchSleepDone(r) ==
  /\ fetch[r].pc = "sleep"
  /\ UNCHANGED <<variant, cfg, cacheVars, req, res, clock, budget>>
  /\ fetch' = [fetch EXCEPT ![r] = FetchLoop(fetch[r], fetch[r].i + 1)]

(***************************************************************************)
(* SpecCache: cacheImageIfNeeded of src/server.js called directly by       *)
(* NumReqs callers, each at any time (so both one after the other and      *)
(* concurrently), with arguments drawn from CacheUrls and CacheKeys.       *)
(***************************************************************************)
CacheUrls == {ImgUrlA, BadUrl}
CacheKeys == {ApodKey(Date("20", "24", "08", "10"), ".jpg")}

CallStart(c) ==
  /\ call[c].pc = "idle"
  /\ \E u \in CacheUrls, k \in CacheKeys : Enter(c, u, k)
  /\ UNCHANGED <<variant, cfg, fetch, req, res, clock, budget>>

CacheInit ==
  /\ files = << >>
  /\ call = [c \in Reqs |-> IdleCall]
  /\ returned = {}
  /\ cachedOk = {}
  /\ fetch = [r \in Reqs |-> IdleFetch]

\* No request has arrived: the handler has not run, no timer is set, nothing is sent.
\* The fields from dateParam on are the locals of the EPIC handler of part_000;
\* `inflight`, `upstreamErr` and `lastCall` are history: the requests being
\* handled when this one arrived, the status the upstream APOD call failed with,
\* and what the last cache call of the APOD handler did; `collection` is the
\* ?collection= of an EPIC request.
IdleReq ==
  [pc |-> "idle", timedOut |-> FALSE, timer |-> "none", nasaData |-> Null,
   originalDisplay |-> Null, nUpstream |-> 0, nCalls |-> 0,
   dateParam |-> Null, colls |-> <<>>, ci |-> 0, dates |-> <<>>, di |-> 0,
   items |-> Null, path |-> "none", si |-> 0, ki |-> 0, enhanced |-> <<>>,
   inflight |-> {}, upstreamErr |-> NoErr, lastCall |-> Null,
   collection |-> "", answer |-> Null, headers |-> Null]
IdleRes == [headersSent |-> FALSE, sent |-> <<>>, rejected |-> 0]

Today == Date("20", "26", "11", "05")

InitCache ==
  /\ variant = "server"
  /\ cfg = [NASA_API_KEY |-> "KEY", PUBLIC_BASE_URL |-> ""]
  /\ CacheInit
  /\ req = [r \in Reqs |-> IdleReq]
  /\ res = [r \in Reqs |-> IdleRes]
  /\ clock = Today
  /\ budget = NoLimit

NextCache ==
  \E c \in Reqs :
    \/ CallStart(c)
    \/ ExistsCheck(c)
    \/ DnsLookup(c)
    \/ HeadPreflight(c)
    \/ GetImage(c)
    \/ OpenFile(c)
    \/ PipeStream(c)
    \/ SleepDone(c)

vars == <<variant, cfg, files, call, returned, cachedOk, fetch, req, res, clock, budget>>

SpecCache == InitCache /\ [][NextCache]_vars

(***************************************************************************)
(* SpecRetry: the two retry loops side by side, one caller of              *)
(* cacheImageIfNeeded and one caller of fetchJsonWithRetry whose options   *)
(* are drawn from 1..MaxFetchAttempts and FetchDelayArgs.                  *)
(***************************************************************************)
MaxFetchAttempts == 3
FetchDelayArgs == {DefaultInitialDelayMs, 4 * DefaultInitialDelayMs}

FetchStart(r) ==
  /\ fetch[r].pc = "idle"
  /\ \E n \in 1..MaxFetchAttempts, d \in FetchDelayArgs : FetchEnter(r, n, d)
  /\ UNCHANGED <<variant, cfg, cacheVars, req, res, clock, budget>>

\* What the URL of a direct call answers with a 2xx.
FetchBodies == {[kind |-> "json"]}

NextRetry ==
  \/ CallStart(1)
  \/ ExistsCheck(1)
  \/ DnsLookup(1)
  \/ HeadPreflight(1)
  \/ GetImage(1)
  \/ OpenFile(1)
  \/ PipeStream(1)
  \/ SleepDone(1)
  \/ FetchStart(1)
  \/ FetchGet(1, FetchBodies)
  \/ FetchSleepDone(1)

SpecRetry == InitCache /\ [][NextRetry]_vars

(***************************************************************************)
(* The response object and the deadline middleware.                        *)
(***************************************************************************)
\* function respondJson(res, body, status = 200)
DefaultStatus == 200

\* isDone(res): res.json sets headersSent and writableEnded together.
isDone(rs) == rs.headersSent

\* res.status(status).json(body).  One response can be written per request; a
\* further res.json throws ERR_HTTP_HEADERS_SENT and is counted in `rejected`.
ResJson(rs, status, body, by) ==
  IF rs.headersSent
    THEN [rs EXCEPT !.rejected = @ + 1]
    ELSE [rs EXCEPT !.headersSent = TRUE,
                    !.sent = Append(@, [status |-> status, type |-> "json",
                                        body |-> body, by |-> by])]

\* Mutant: the body is written with an error status.
respondJsonAsError(rs, body, status) ==
  IF isDone(rs) THEN rs ELSE ResJson(rs, 500, body, "handler")

\* respondJson(res, body, status)
respondJson(rs, body, status) ==
  IF isDone(rs) THEN rs ELSE ResJson(rs, status, body, "handler")

GatewayTimeoutBody == [kind |-> "error", error |-> "Gateway Timeout"]

\* Mutant: the deadline answers 504 itself, as the middleware of part_000 does.
TimeoutResponseAnswers(rs) ==
  IF rs.headersSent THEN rs ELSE ResJson(rs, 504, GatewayTimeoutBody, "timer")

\* What the deadline callback does to the response: nothing in server.js
\* (it only sets req.timedOut); in part_000 it answers 504 unless headers are sent.
TimeoutResponse(rs) ==
  IF variant = "server" THEN rs
  ELSE IF rs.headersSent THEN rs ELSE ResJson(rs, 504, GatewayTimeoutBody, "timer")

\* The timer set by the middleware fires.
OnTimeout(r) ==
  /\ req[r].timer = "armed"
  /\ req' = [req EXCEPT ![r].timer = "fired",
                        ![r].timedOut = IF variant = "server" THEN TRUE ELSE @]
  /\ res' = [res EXCEPT ![r] = TimeoutResponse(@)]
  /\ UNCHANGED <<variant, cfg, cacheVars, fetch, clock, budget>>

\* res.on('finish', () => clearTimeout(timer))
ResFinish(r) ==
  /\ res[r].headersSent
  /\ req[r].timer = "armed"
  /\ req' = [req EXCEPT ![r].timer = "cleared"]
  /\ UNCHANGED <<variant, cfg, cacheVars, fetch, res, clock, budget>>

(***************************************************************************)
(* APOD records and their processing (the synchronous part of the handler  *)
(* between the upstream answer and the call of cacheImageIfNeeded).        *)
(***************************************************************************)
\* A non-empty explanation, as the set of the searched words its lower case contains.
Text(words) == [kind |-> "text", words |-> words]

ApodRecord(mt, url, hdurl, expl, date) ==
  [kind |-> "apod", title |-> "upstream", media_type |-> mt, url |-> url, hdurl |-> hdurl,
   explanation |-> expl, date |-> date, thumbnail_url |-> Null, video_url |-> Null,
   isNasaHosted |-> FALSE, display_url |-> Null, original_url |-> Null]

\* A video URL: `form` is how the token follows the host
\*   "embed"  <host>/embed/<token>     "watch"  <host>/watch?v=<token>
\*   "short"  <host>/<token>           "page"   <host>/<dir>/<token>
\* and `token` is the sequence of its characters up to the next delimiter.
VideoUrl(host, form, token) ==
  [kind |-> "url", scheme |-> "https", host |-> host,
   dirs |-> IF form = "embed" THEN <<"embed">> ELSE IF form = "page" THEN <<"c">> ELSE <<>>,
   name |-> IF form = "watch" THEN <<"watch">> ELSE token,
   ext |-> "", query |-> IF form = "watch" THEN "v=" ELSE "",
   form |-> form, token |-> token]

\* String.prototype.includes on the host names of the model.
HostIncludes(host, part) ==
  <<host, part>> \in {<<"www.youtube.com", "youtube.com">>, <<"youtu.be", "youtu.be">>,
                      <<"player.vimeo.com", "vimeo.com">>}
  \* "www.dailymotion.com" includes none of the three

UrlIncludes(u, part) == HostIncludes(u.host, part)

\* extractYouTubeId(url): the 11 characters after youtube.com/embed/, /v/, /e/,
\* ...[?&]v= or youtu.be/, or null (here the empty sequence).
extractYouTubeId(u) ==
  IF /\ "form" \in DOMAIN u
     /\ \/ HostIncludes(u.host, "youtube.com") /\ u.form \in {"embed", "watch"}
        \/ HostIncludes(u.host, "youtu.be") /\ u.form = "short"
     /\ Len(u.token) >= 11
    THEN SubSeq(u.token, 1, 11)
    ELSE <<>>

\* Mutant: the medium-quality thumbnail.
YouTubeThumbMq(id) == Url("img.youtube.com", <<"vi">> \o id, <<"mqdefault">>, ".jpg", "")

\* `https://img.youtube.com/vi/${videoId}/hqdefault.jpg`
YouTubeThumb(id) == Url("img.youtube.com", <<"vi">> \o id, <<"hqdefault">>, ".jpg", "")

PlaceholderUrl ==
  Url("images.unsplash.com", <<>>, <<"photo-1446776877081-d282a0f896e2">>, "",
      "w=800&h=600&fit=crop")

\* `https://apod.nasa.gov/apod/ap${year}${month}${day}.html`
ApodPage(date) == Url("apod.nasa.gov", <<"apod">>, <<"ap", date.yy, date.mm, date.dd>>, ".html", "")

\* nasaData.explanation && (... includes('video') || includes('animation') || includes('time-lapse'))
MentionsVideo(d) ==
  /\ d.explanation # Null
  /\ d.explanation.words \cap {"video", "animation", "time-lapse"} # {}

\* Lines 237-278: the record as the handler rewrites it, or a TypeError.
ProcessApod(d) ==
  IF d = Null THEN [ok |-> FALSE, data |-> Null]
  ELSE IF d.media_type = "video" /\ d.url # Null
    THEN LET id == extractYouTubeId(d.url)
             thumb == IF UrlIncludes(d.url, "youtube.com") \/ UrlIncludes(d.url, "youtu.be")
                        THEN IF id # <<>> THEN YouTubeThumb(id) ELSE d.thumbnail_url
                        ELSE IF UrlIncludes(d.url, "vimeo.com") THEN PlaceholderUrl
                        ELSE d.thumbnail_url
         IN [ok |-> TRUE, data |-> [d EXCEPT !.thumbnail_url = thumb, !.video_url = d.url]]
  ELSE IF d.media_type = "other" \/ MentionsVideo(d)
    THEN LET v == [d EXCEPT !.media_type = "video", !.isNasaHosted = TRUE,
                            !.thumbnail_url = PlaceholderUrl]
         IN IF d.url # Null THEN [ok |-> TRUE, data |-> v]
            ELSE IF d.date = Null THEN [ok |-> FALSE, data |-> Null]
            ELSE [ok |-> TRUE, data |-> [v EXCEPT !.video_url = ApodPage(d.date),
                                                   !.url = ApodPage(d.date)]]
  ELSE [ok |-> TRUE, data |-> d]

\* Mutant: the standard URL is preferred to the high-definition one.
ChooseDisplayUrlFirst(d) ==
  IF d.media_type = "image" THEN (IF d.url # Null THEN d.url ELSE d.hdurl)
  ELSE IF d.media_type = "video" THEN d.thumbnail_url
  ELSE Null

\* Lines 281-286: the one URL handed to the cache.
ChooseDisplay(d) ==
  IF d.media_type = "image" THEN (IF d.hdurl # Null THEN d.hdurl ELSE d.url)
  ELSE IF d.media_type = "video" THEN d.thumbnail_url
  ELSE Null

\* path.extname(new URL(originalDisplay).pathname) || '.jpg'
ExtOf(u) == IF u.ext # "" THEN u.ext ELSE ".jpg"

\* (nasaData.date || new Date().toISOString().split('T')[0])
DateOf(d) == IF d.date # Null THEN d.date ELSE clock

\* Mutant: the fallback object without its display_url.
ApodFallbackBare ==
  [ApodRecord("image", EarthriseUrl, EarthriseUrl, Text({}), clock) EXCEPT !.title = "Earthrise"]

\* The fallback object of the catch block, display_url included.
ApodFallback ==
  [ApodRecord("image", EarthriseUrl, EarthriseUrl, Text({}), clock)
     EXCEPT !.title = "Earthrise", !.display_url = EarthriseUrl]

(***************************************************************************)
(* app.get('/api/nasa/apod').  req[r].pc is                                *)
(*   upstream  await axiosClient.get(apiUrl)                               *)
(*   caching   await cacheImageIfNeeded(originalDisplay, subpath, req)     *)
(*   done      the handler has returned                                    *)
(* nUpstream and nCalls count the upstream GETs and the cache calls;       *)
(* answer is response.data as it arrived, nasaData as the handler rewrote  *)
(* it.                                                                     *)
(***************************************************************************)
\* What api.nasa.gov/planetary/apod may answer with a 2xx.
ApodDay == Date("20", "24", "08", "10")
YouTubeId == <<"d", "Q", "w", "4", "w", "9", "W", "g", "X", "c", "Q">>
ApodAnswers ==
  {ApodRecord("image", ImgUrlA, ImgUrlB, Text({}), ApodDay),
   ApodRecord("video", VideoUrl("www.youtube.com", "embed", YouTubeId), Null, Text({"video"}), ApodDay),
   ApodRecord("other", Null, Null, Text({}), ApodDay),
   Null}

\* What axiosClient.get(apiUrl) may reject with: a status outside 2xx, or no response.
ApodFailures == {404, 429, 503, NoStatus}

\* catch (error) { ... respondJson(res, fallback); }
RespondFallback(r) ==
  /\ res' = [res EXCEPT ![r] = respondJson(@, ApodFallback, DefaultStatus)]
  /\ UNCHANGED cacheVars

\* respondJson(res, nasaData)
RespondRecord(r, d) ==
  res' = [res EXCEPT ![r] = respondJson(@, d, DefaultStatus)]

\* The request arrives: the middleware arms the timer and the handler runs up to
\* its first await, or into its catch block when no API key is configured.
ApodArrive(r) ==
  /\ variant = "server"
  /\ req[r].pc = "idle"
  /\ IF cfg.NASA_API_KEY = ""
       THEN /\ req' = [req EXCEPT ![r] = [IdleReq EXCEPT !.pc = "done", !.timer = "armed"]]
            /\ RespondFallback(r)
       ELSE /\ req' = [req EXCEPT ![r] = [IdleReq EXCEPT !.pc = "upstream", !.timer = "armed",
                                                        !.nUpstream = 1]]
            /\ UNCHANGED <<res, cacheVars>>
  /\ UNCHANGED <<variant, cfg, fetch, clock, budget>>

\* The upstream GET settles: an error goes to the catch block, a record is
\* rewritten and its display URL, if any, handed to cacheImageIfNeeded.
ApodSettle(r, answers) ==
  /\ req[r].pc = "upstream"
  /\ \/ \E st \in ApodFailures :
          /\ req' = [req EXCEPT ![r].pc = "done", ![r].upstreamErr = st]
          /\ RespondFallback(r)
     \/ \E d \in answers :
          LET p == ProcessApod(d)
              od == IF p.ok THEN ChooseDisplay(p.data) ELSE Null
          IN IF ~p.ok
               THEN /\ req' = [req EXCEPT ![r].pc = "done"]
                    /\ RespondFallback(r)
               ELSE IF od # Null /\ IsValidUrl(od)
                 THEN /\ req' = [req EXCEPT ![r].pc = "caching", ![r].nasaData = p.data,
                                            ![r].originalDisplay = od, ![r].nCalls = @ + 1,
                                            ![r].answer = d]
                      /\ Enter(r, od, ApodKey(DateOf(p.data), ExtOf(od)))
                      /\ UNCHANGED res
                 ELSE /\ req' = [req EXCEPT ![r].pc = "done", ![r].nasaData = p.data,
                                            ![r].answer = d]
                      /\ RespondRecord(r, p.data)
                      /\ UNCHANGED cacheVars
  /\ UNCHANGED <<variant, cfg, fetch, clock, budget>>

ApodUpstream(r) == ApodSettle(r, ApodAnswers)

\* Mutant: a failed cache call turns the answer into the fallback object.
WithDisplayOrFallback(d, cdnUrl, originalDisplay) ==
  IF cdnUrl # Null
    THEN [d EXCEPT !.display_url = cdnUrl, !.original_url = originalDisplay]
    ELSE ApodFallback

\* if (cdnUrl) { nasaData.display_url = cdnUrl; nasaData.original_url = originalDisplay; }
WithDisplay(d, cdnUrl, originalDisplay) ==
  IF cdnUrl # Null
    THEN [d EXCEPT !.display_url = cdnUrl, !.original_url = originalDisplay]
    ELSE d

\* cacheImageIfNeeded has returned: the record gets display_url and original_url
\* when a URL came back, and is sent.
ApodCached(r) ==
  /\ req[r].pc = "caching"
  /\ CallSettled(call[r])
  /\ LET d == WithDisplay(req[r].nasaData, call[r].result, req[r].originalDisplay)
     IN /\ req' = [req EXCEPT ![r].pc = "done", ![r].nasaData = d,
                               ![r].lastCall = [result |-> call[r].result,
                                                nGet |-> call[r].nGet,
                                                nOpen |-> call[r].nOpen]]
        /\ RespondRecord(r, d)
  /\ call' = [call EXCEPT ![r] = IdleCall]
  /\ UNCHANGED <<variant, cfg, files, returned, cachedOk, fetch, clock, budget>>

(***************************************************************************)
(* SpecApod: src/server.js serving NumReqs requests to /api/nasa/apod,     *)
(* with and without an API key.                                            *)
(***************************************************************************)
InitApod ==
  /\ variant = "server"
  /\ cfg \in {[NASA_API_KEY |-> k, PUBLIC_BASE_URL |-> ""] : k \in {"", "KEY"}}
  /\ CacheInit
  /\ req = [r \in Reqs |-> IdleReq]
  /\ res = [r \in Reqs |-> IdleRes]
  /\ clock = Today
  /\ budget = NoLimit

NextApod ==
  \E r \in Reqs :
    \/ ApodArrive(r)
    \/ ApodUpstream(r)
    \/ ApodCached(r)
    \/ OnTimeout(r)
    \/ ResFinish(r)
    \/ ExistsCheck(r)
    \/ DnsLookup(r)
    \/ HeadPreflight(r)
    \/ GetImage(r)
    \/ OpenFile(r)
    \/ PipeStream(r)
    \/ SleepDone(r)

SpecApod == InitApod /\ [][NextApod]_vars

(***************************************************************************)
(* SpecApodOne: src/server.js with an API key serving one request to       *)
(* /api/nasa/apod, upstream answering any of the records of every kind     *)
(* below, and the environment failing at most MaxApodFaults requests or    *)
(* writes.                                                                 *)
(***************************************************************************)
MaxApodFaults == 3

ShortToken == <<"a", "b", "c">>
OneApodAnswers ==
  {ApodRecord("image", ImgUrlA, ImgUrlB, Text({}), ApodDay),
   ApodRecord("image", ImgUrlA, Null, Text({}), ApodDay),
   ApodRecord("image", Null, Null, Text({}), ApodDay),
   ApodRecord("image", ImgUrlA, ImgUrlB, Text({"video"}), ApodDay),
   ApodRecord("image", ImgUrlA, ImgUrlB, Text({"time-lapse"}), ApodDay),
   ApodRecord("image", ImgUrlA, ImgUrlB, Null, ApodDay),
   ApodRecord("video", VideoUrl("www.youtube.com", "embed", YouTubeId), Null, Text({"video"}), ApodDay),
   ApodRecord("video", VideoUrl("www.youtube.com", "watch", YouTubeId), Null, Text({}), ApodDay),
   ApodRecord("video", VideoUrl("youtu.be", "short", YouTubeId \o ShortToken), Null, Text({}), ApodDay),
   ApodRecord("video", VideoUrl("www.youtube.com", "embed", ShortToken), Null, Text({"video"}), ApodDay),
   ApodRecord("video", VideoUrl("www.youtube.com", "page", YouTubeId), Null, Text({}), ApodDay),
   ApodRecord("video", VideoUrl("player.vimeo.com", "page", ShortToken), Null, Text({}), ApodDay),
   ApodRecord("video", VideoUrl("www.dailymotion.com", "page", YouTubeId), Null, Text({"video"}), ApodDay),
   ApodRecord("video", Null, Null, Text({}), ApodDay),
   ApodRecord("video", Null, Null, Text({"animation"}), ApodDay),
   ApodRecord("other", Null, Null, Text({}), ApodDay),
   ApodRecord("other", ImgUrlA, Null, Text({"animation"}), ApodDay),
   ApodRecord("image", ImgUrlA, ImgUrlB, Text({}), Null)}

InitApodOne ==
  /\ variant = "server"
  /\ cfg = [NASA_API_KEY |-> "KEY", PUBLIC_BASE_URL |-> ""]
  /\ CacheInit
  /\ req = [r \in Reqs |-> IdleReq]
  /\ res = [r \in Reqs |-> IdleRes]
  /\ clock = Today
  /\ budget = AtMost(MaxApodFaults)

ApodUpstreamOne == ApodSettle(1, OneApodAnswers)

NextApodOne ==
  \/ ApodArrive(1)
  \/ ApodUpstreamOne
  \/ ApodCached(1)
  \/ OnTimeout(1)
  \/ ResFinish(1)
  \/ ExistsCheck(1)
  \/ DnsLookup(1)
  \/ HeadPreflight(1)
  \/ GetImage(1)
  \/ OpenFile(1)
  \/ PipeStream(1)
  \/ SleepDone(1)

SpecApodOne == InitApodOne /\ [][NextApodOne]_vars

(***************************************************************************)
(* app.get('/api/nasa/epic') of part_000 (lines 753-1006).  req[r].pc is   *)
(*   available  await fetchAvailableDates(collection)                      *)
(*   items      await fetchItemsFor(collection, candidateDates[di])        *)
(*   today      await fetchItemsFor(collection, null)                      *)
(*   candidate  await cacheImageIfNeeded(candidate ki of the record)       *)
(*   done       the handler has returned or its promise has rejected       *)
(* and req[r].path tells the try block ("main") from the catch block       *)
(* ("fallback").  `chosen` and `firstImageFound` are folded into the       *)
(* control flow.                                                           *)
(***************************************************************************)
Array(elems) == [kind |-> "array", elems |-> elems]
IsArray(x) == x # Null /\ x.kind = "array"
\* alt && Array.isArray(alt) && alt.length > 0
NonEmptyArray(x) == IsArray(x) /\ Len(x.elems) > 0

EpicRecord(identifier, image, date) ==
  [kind |-> "epic", identifier |-> identifier, image |-> image, date |-> date,
   image_url |-> Null, original_url |-> Null, collection |-> Null]

EpicDay == Date("20", "24", "08", "10")
EpicUpstreamRecord == EpicRecord("20240810003633", "epic_1b_20240810003633", EpicDay)
\* const fallback = [{ identifier: "20240810_000000", ... }]
EpicFallbackRecord == EpicRecord("20240810_000000", "epic_1b_20240810000000", EpicDay)

\* Mutant: the requested collection does not change the order.
CollectionsToTryNaturalFirst(requested) == <<"natural", "enhanced">>

\* requestedCollection === 'enhanced' ? ['enhanced', 'natural'] : ['natural', 'enhanced']
CollectionsToTry(requested) ==
  IF requested = "enhanced" THEN <<"enhanced", "natural">> ELSE <<"natural", "enhanced">>

\* The number a two-digit field of a date stands for.
NumOf(s) ==
  CASE s = "04" -> 4 [] s = "05" -> 5 [] s = "08" -> 8 [] s = "09" -> 9 [] s = "10" -> 10
    [] s = "11" -> 11 [] s = "20" -> 20 [] s = "24" -> 24 [] s = "26" -> 26

DateNum(d) == ((NumOf(d.cc) * 100 + NumOf(d.yy)) * 100 + NumOf(d.mm)) * 100 + NumOf(d.dd)

\* data.sort().reverse(): ISO dates, most recent first.
RECURSIVE SortDesc(_)
SortDesc(a) ==
  IF a = <<>> THEN <<>>
  ELSE LET m == CHOOSE i \in 1..Len(a) : \A j \in 1..Len(a) : DateNum(a[i]) >= DateNum(a[j])
       IN <<a[m]>> \o SortDesc(SubSeq(a, 1, m - 1) \o SubSeq(a, m + 1, Len(a)))

\* new Date(Date.UTC(y, m, d - 1)) for the days of the month after the first.
Yesterday(d) ==
  [d EXCEPT !.dd = CASE d.dd = "05" -> "04" [] d.dd = "10" -> "09" [] d.dd = "11" -> "10"]

RECURSIVE AddDates(_, _)
\* for (const d of ...) if (!candidateDates.includes(d)) candidateDates.push(d)
AddDates(dates, more) ==
  IF more = <<>> THEN dates
  ELSE AddDates(IF \E i \in 1..Len(dates) : dates[i] = more[1]
                  THEN dates ELSE Append(dates, more[1]),
                Tail(more))

\* Mutant: every available date is asked for, not the latest three.
CandidateDatesAll(dateParam, available) ==
  LET first == IF dateParam # Null THEN <<dateParam>> ELSE <<>>
      dates == AddDates(first, available)
  IN IF dates = <<>> THEN <<Yesterday(clock)>> ELSE dates

\* Lines 793-807: the dates asked for one collection.
CandidateDates(dateParam, available) ==
  LET first == IF dateParam # Null THEN <<dateParam>> ELSE <<>>
      latest == SubSeq(available, 1, IF Len(available) < 3 THEN Len(available) ELSE 3)
      dates == AddDates(first, latest)
  IN IF dates = <<>> THEN <<Yesterday(clock)>> ELSE dates

\* path.join('nasa', 'epic', yyyy, mm, dd, [thumbs,] filename)
EpicKey(date, thumbs, image, ext) == <<"nasa", "epic", date, thumbs, image, ext>>

\* `${item.image}.${ext}`
DotExt(ext) == IF ext = "png" THEN ".png" ELSE ".jpg"

GsfcUrl(coll, d, kind, image, ext) ==
  Url("epic.gsfc.nasa.gov", <<"archive", coll, d.cc, d.yy, d.mm, d.dd, kind>>, <<image>>,
      DotExt(ext), "")

ApiUrl(coll, d, kind, image, ext) ==
  Url("api.nasa.gov", <<"EPIC", "archive", coll, d.cc, d.yy, d.mm, d.dd, kind>>, <<image>>,
      DotExt(ext), "api_key=")

Candidate(url, key, original) == [url |-> url, key |-> key, original |-> original]

GsfcImage(coll, it, ext) ==
  Candidate(GsfcUrl(coll, it.date, ext, it.image, ext), EpicKey(it.date, FALSE, it.image, ext),
            GsfcUrl(coll, it.date, ext, it.image, ext))
\* Mutant: the URL that was downloaded is kept as the original.
ApiImageAsDownloaded(coll, it, ext) ==
  Candidate(ApiUrl(coll, it.date, ext, it.image, ext), EpicKey(it.date, FALSE, it.image, ext),
            ApiUrl(coll, it.date, ext, it.image, ext))
ApiImage(coll, it, ext) ==
  Candidate(ApiUrl(coll, it.date, ext, it.image, ext), EpicKey(it.date, FALSE, it.image, ext),
            GsfcUrl(coll, it.date, ext, it.image, ext))
GsfcThumb(coll, it) ==
  Candidate(GsfcUrl(coll, it.date, "thumbs", it.image, "jpg"),
            EpicKey(it.date, TRUE, it.image, "jpg"),
            GsfcUrl(coll, it.date, "thumbs", it.image, "jpg"))
ApiThumb(coll, it) ==
  Candidate(ApiUrl(coll, it.date, "thumbs", it.image, "jpg"),
            EpicKey(it.date, TRUE, it.image, "jpg"),
            GsfcUrl(coll, it.date, "thumbs", it.image, "jpg"))

\* Mutant: the thumbnail of the primary host is tried before the secondary host.
RecordCandidatesThumbEarly(coll, it) ==
  <<GsfcImage(coll, it, "png"), GsfcImage(coll, it, "jpg"), GsfcThumb(coll, it)>>
  \o (IF cfg.NASA_API_KEY # ""
        THEN <<ApiImage(coll, it, "png"), ApiImage(coll, it, "jpg"), ApiThumb(coll, it)>>
        ELSE <<>>)

\* Lines 837-875: the order in which the mirrors of a record are tried.
RecordCandidates(coll, it) ==
  <<GsfcImage(coll, it, "png"), GsfcImage(coll, it, "jpg")>>
  \o (IF cfg.NASA_API_KEY # "" THEN <<ApiImage(coll, it, "png"), ApiImage(coll, it, "jpg")>>
      ELSE <<>>)
  \o <<GsfcThumb(coll, it)>>
  \o (IF cfg.NASA_API_KEY # "" THEN <<ApiThumb(coll, it)>> ELSE <<>>)

\* Mutant: the fallback record is tried in the order of an upstream record.
FallbackCandidatesAsRecord ==
  LET it == EpicFallbackRecord
  IN <<GsfcImage("natural", it, "png"), GsfcImage("natural", it, "jpg")>>
     \o (IF cfg.NASA_API_KEY # ""
           THEN <<ApiImage("natural", it, "png"), ApiImage("natural", it, "jpg")>>
           ELSE <<>>)
     \o <<GsfcThumb("natural", it)>>
     \o (IF cfg.NASA_API_KEY # "" THEN <<ApiThumb("natural", it)>> ELSE <<>>)

\* Lines 967-998: the order in which the mirrors of the fallback record are tried.
FallbackCandidates ==
  LET it == EpicFallbackRecord
  IN <<GsfcImage("natural", it, "png"), GsfcImage("natural", it, "jpg"),
       GsfcThumb("natural", it)>>
     \o (IF cfg.NASA_API_KEY # ""
           THEN <<ApiImage("natural", it, "png"), ApiImage("natural", it, "jpg"),
                  ApiThumb("natural", it)>>
           ELSE <<>>)

\* items.slice(0, 2)
Slice(items) == SubSeq(items.elems, 1, IF Len(items.elems) < 2 THEN Len(items.elems) ELSE 2)

usedCollection(rq) == rq.colls[rq.ci]

\* The record the handler is caching an image for, and its candidates.
CurrentItem(rq) == IF rq.path = "main" THEN Slice(rq.items)[rq.si] ELSE EpicFallbackRecord
Candidates(rq) ==
  IF rq.path = "main" THEN RecordCandidates(usedCollection(rq), CurrentItem(rq))
  ELSE FallbackCandidates

\* The upstream resource that the handler with locals rq is awaiting (lines
\* 769-781): the available dates of a collection, its records of one date, or
\* its records without a date.
Asking(rq) ==
  [coll |-> usedCollection(rq), what |-> rq.pc,
   date |-> IF rq.pc = "items" THEN rq.dates[rq.di] ELSE Null]

\* A step of the handler leaves its locals as rq and then awaits a fetch
\* ("fetch"), awaits cacheImageIfNeeded for candidate c ("call"), or calls
\* res.json(body) ("send").
AwaitFetch(rq) == [rq |-> rq, do |-> "fetch", c |-> Null, body |-> Null]
AwaitCall(rq) == [rq |-> rq, do |-> "call", c |-> Candidates(rq)[rq.ki], body |-> Null]
Send(rq, elems) == [rq |-> rq, do |-> "send", c |-> Null, body |-> Array(elems)]

\* catch (error) { const fallback = [...]; try { first candidate ...
StartFallback(rq) == AwaitCall([rq EXCEPT !.pc = "candidate", !.path = "fallback", !.ki = 1])

\* for (const item of slice): the next record, or res.json(enhanced) after the loop.
ItemLoop(rq) ==
  IF rq.si <= Len(Slice(rq.items))
    THEN AwaitCall([rq EXCEPT !.pc = "candidate", !.ki = 1])
    ELSE Send(rq, rq.enhanced)

\* Lines 820-826.
AfterLoop(rq) ==
  IF rq.items = Null THEN StartFallback(rq)
  ELSE ItemLoop([rq EXCEPT !.path = "main", !.si = 1, !.enhanced = <<>>])

\* for (const collection of collectionsToTry) { available = await fetchAvailableDates(...)
CollectionLoop(rq, ci) ==
  IF ci <= Len(rq.colls) THEN AwaitFetch([rq EXCEPT !.pc = "available", !.ci = ci])
  ELSE AfterLoop(rq)

\* Line 818: if (items && Array.isArray(items) && items.length > 0) break;
CollectionEnd(rq) ==
  IF NonEmptyArray(rq.items) THEN AfterLoop(rq) ELSE CollectionLoop(rq, rq.ci + 1)

\* Lines 814-817.
AfterDates(rq) ==
  IF rq.items = Null \/ (IsArray(rq.items) /\ Len(rq.items.elems) = 0)
    THEN AwaitFetch([rq EXCEPT !.pc = "today"])
    ELSE CollectionEnd(rq)

\* Lines 809-812, with alt the answer for candidateDates[di].
AfterItems(rq, alt) ==
  IF NonEmptyArray(alt) THEN AfterDates([rq EXCEPT !.items = alt])
  ELSE IF rq.di < Len(rq.dates) THEN AwaitFetch([rq EXCEPT !.di = @ + 1])
  ELSE AfterDates(rq)

\* Lines 844-890 and 974-1001, with cdnUrl the result for candidate ki.
AfterCandidate(rq, cdnUrl) ==
  LET it == CurrentItem(rq)
      c == Candidates(rq)[rq.ki]
  IN IF cdnUrl # Null
       THEN IF rq.path = "main"
              THEN Send(rq, Append(rq.enhanced,
                                   [it EXCEPT !.image_url = cdnUrl, !.original_url = c.original,
                                              !.collection = usedCollection(rq)]))
              ELSE Send(rq, <<[it EXCEPT !.image_url = cdnUrl, !.original_url = c.original]>>)
     ELSE IF rq.ki < Len(Candidates(rq)) THEN AwaitCall([rq EXCEPT !.ki = @ + 1])
     ELSE IF rq.path = "main"
       THEN ItemLoop([rq EXCEPT !.enhanced = Append(@, it), !.si = @ + 1])
       ELSE Send(rq, <<it>>)

\* The handler of request r goes on as step s tells.  res.json throws when the
\* deadline has already answered: in the try block that enters the catch block,
\* in the catch block it rejects the handler's promise.
Continue(r, s) ==
  /\ UNCHANGED <<variant, cfg, files, returned, cachedOk, clock, budget>>
  /\ CASE s.do = "fetch" ->
            /\ req' = [req EXCEPT ![r] = s.rq]
            /\ FetchEnter(r, DefaultAttempts, DefaultInitialDelayMs)
            /\ UNCHANGED <<call, res>>
       [] s.do = "call" ->
            /\ req' = [req EXCEPT ![r] = s.rq]
            /\ fetch' = [fetch EXCEPT ![r] = IdleFetch]
            /\ call' = [call EXCEPT ![r] =
                          [IdleCall EXCEPT !.pc = "ensureDir", !.sourceUrl = s.c.url,
                                           !.subpath = s.c.key,
                                           !.afterSame = (<<s.c.url, s.c.key>> \in returned),
                                           !.afterOk = (s.c.key \in cachedOk)]]
            /\ UNCHANGED res
       [] s.do = "send" ->
            /\ res' = [res EXCEPT ![r] = ResJson(@, DefaultStatus, s.body, "handler")]
            /\ fetch' = [fetch EXCEPT ![r] = IdleFetch]
            /\ IF res[r].headersSent /\ s.rq.path = "main"
                 THEN LET f == StartFallback(s.rq)
                      IN /\ req' = [req EXCEPT ![r] = f.rq]
                         /\ call' = [call EXCEPT ![r] =
                                       [IdleCall EXCEPT !.pc = "ensureDir",
                                                        !.sourceUrl = f.c.url,
                                                        !.subpath = f.c.key,
                                                        !.afterSame = (<<f.c.url, f.c.key>> \in returned),
                                                        !.afterOk = (f.c.key \in cachedOk)]]
                 ELSE /\ req' = [req EXCEPT ![r] = [s.rq EXCEPT !.pc = "done"]]
                      /\ call' = [call EXCEPT ![r] = IdleCall]

\* What a request may ask for: ?date= and ?collection=.
NoDate == Null
EpicQueries == {[date |-> NoDate, collection |-> "natural"]}

\* The request arrives: the middleware arms the timer and the handler runs up to
\* its first await.
EpicRequest(r, q) ==
  /\ variant = "epic"
  /\ req[r].pc = "idle"
  /\ LET rq == [IdleReq EXCEPT !.timer = "armed", !.dateParam = q.date,
                               !.collection = q.collection,
                               !.colls = CollectionsToTry(q.collection),
                               !.inflight = {o \in Reqs : req[o].pc \notin {"idle", "done"}}]
     IN Continue(r, IF cfg.NASA_API_KEY = "" THEN StartFallback(rq)
                    ELSE CollectionLoop(rq, 1))

EpicArrive(r) == \E q \in EpicQueries : EpicRequest(r, q)

\* What fetch[r] has settled with: resp.data, or null for a thrown error.
Settled(r) == IF fetch[r].pc = "returned" THEN fetch[r].data ELSE Null

\* fetchAvailableDates has settled: the dates most recent first, [] on an error.
EpicAvailable(r) ==
  /\ req[r].pc = "available"
  /\ fetch[r].pc \in {"returned", "threw"}
  /\ LET data == fetch[r].data
         available == IF fetch[r].pc = "returned" /\ IsArray(data)
                        THEN SortDesc(data.elems) ELSE <<>>
     IN Continue(r, AwaitFetch([req[r] EXCEPT !.pc = "items",
                                               !.dates = CandidateDates(req[r].dateParam, available),
                                               !.di = 1]))

\* fetchItemsFor(collection, ds) has settled: null on an error.
EpicItems(r) ==
  /\ req[r].pc = "items"
  /\ fetch[r].pc \in {"returned", "threw"}
  /\ Continue(r, AfterItems(req[r], Settled(r)))

\* fetchItemsFor(collection, null) has settled.
EpicToday(r) ==
  /\ req[r].pc = "today"
  /\ fetch[r].pc \in {"returned", "threw"}
  /\ Continue(r, CollectionEnd([req[r] EXCEPT !.items = Settled(r)]))

\* cacheImageIfNeeded has returned for the current candidate.
EpicCandidate(r) ==
  /\ req[r].pc = "candidate"
  /\ CallSettled(call[r])
  /\ Continue(r, AfterCandidate(req[r], call[r].result))

\* What the EPIC API answers with a 2xx to the call request r is awaiting.
AvailableAnswers == {Array(<<>>), Array(<<EpicDay>>)}
ItemsAnswers == {Array(<<>>), Array(<<EpicUpstreamRecord>>)}
EpicBodies(r) == IF req[r].pc = "available" THEN AvailableAnswers ELSE ItemsAnswers

(***************************************************************************)
(* SpecEpic: part_000 (lines 486-1022) serving NumReqs requests to         *)
(* /api/nasa/epic, the environment failing at most MaxFaults requests or   *)
(* writes.                                                                 *)
(***************************************************************************)
MaxFaults == 1

InitEpic ==
  /\ variant = "epic"
  /\ cfg = [NASA_API_KEY |-> "KEY", PUBLIC_BASE_URL |-> ""]
  /\ CacheInit
  /\ req = [r \in Reqs |-> IdleReq]
  /\ res = [r \in Reqs |-> IdleRes]
  /\ clock = Today
  /\ budget = AtMost(MaxFaults)

NextEpic ==
  \E r \in Reqs :
    \/ EpicArrive(r)
    \/ EpicAvailable(r)
    \/ EpicItems(r)
    \/ EpicToday(r)
    \/ EpicCandidate(r)
    \/ OnTimeout(r)
    \/ ResFinish(r)
    \/ FetchGet(r, EpicBodies(r))
    \/ FetchSleepDone(r)
    \/ ExistsCheck(r)
    \/ GetImage(r)
    \/ OpenFile(r)
    \/ PipeStream(r)
    \/ SleepDone(r)

SpecEpic == InitEpic /\ [][NextEpic]_vars

(***************************************************************************)
(* SpecEpicOne: part_000 serving one request to /api/nasa/epic, with any   *)
(* ?date= and ?collection=, upstream listing up to four available dates in *)
(* any order and up to three records, and the environment failing at most  *)
(* MaxOneFaults requests or writes.                                        *)
(***************************************************************************)
MaxOneFaults == 6

Day08 == Date("20", "24", "08", "08")
Day09 == Date("20", "24", "08", "09")
Day11 == Date("20", "24", "08", "11")

OneQueries == {[date |-> d, collection |-> c] : d \in {NoDate, EpicDay},
                                                c \in {"natural", "enhanced"}}
OneAvailable == {Array(<<>>), Array(<<Day09>>), Array(<<Day09, Day11, Day08, EpicDay>>)}
OneItems ==
  {Array(<<>>),
   Array(<<EpicUpstreamRecord,
           EpicRecord("20240810012744", "epic_1b_20240810012744", EpicDay),
           EpicRecord("20240810030145", "epic_1b_20240810030145", EpicDay)>>)}
OneBodies == IF req[1].pc = "available" THEN OneAvailable ELSE OneItems

InitEpicOne ==
  /\ variant = "epic"
  /\ cfg = [NASA_API_KEY |-> "KEY", PUBLIC_BASE_URL |-> ""]
  /\ CacheInit
  /\ req = [r \in Reqs |-> IdleReq]
  /\ res = [r \in Reqs |-> IdleRes]
  /\ clock = Today
  /\ budget = AtMost(MaxOneFaults)

EpicArriveOne == \E q \in OneQueries : EpicRequest(1, q)

NextEpicOne ==
  \/ EpicArriveOne
  \/ EpicAvailable(1)
  \/ EpicItems(1)
  \/ EpicToday(1)
  \/ EpicCandidate(1)
  \/ OnTimeout(1)
  \/ ResFinish(1)
  \/ FetchGet(1, OneBodies)
  \/ FetchSleepDone(1)
  \/ ExistsCheck(1)
  \/ GetImage(1)
  \/ OpenFile(1)
  \/ PipeStream(1)
  \/ SleepDone(1)

SpecEpicOne == InitEpicOne /\ [][NextEpicOne]_vars

(***************************************************************************)
(* SpecDays: src/server.js with an API key serving NumReqs requests to     *)
(* /api/nasa/apod before and after midnight (UTC), upstream answering an   *)
(* image record with or without a date, and the environment failing at     *)
(* most MaxDayFaults requests or writes.                                   *)
(***************************************************************************)
MaxDayFaults == 1

Tomorrow == Date("20", "26", "11", "06")

DayAnswers ==
  {ApodRecord("image", ImgUrlA, ImgUrlB, Text({}), Null),
   ApodRecord("image", ImgUrlA, ImgUrlB, Text({}), ApodDay)}

InitDays ==
  /\ variant = "server"
  /\ cfg = [NASA_API_KEY |-> "KEY", PUBLIC_BASE_URL |-> ""]
  /\ CacheInit
  /\ req = [r \in Reqs |-> IdleReq]
  /\ res = [r \in Reqs |-> IdleRes]
  /\ clock = Today
  /\ budget = AtMost(MaxDayFaults)

\* new Date().toISOString().split('T')[0] changes at midnight UTC.
Midnight ==
  /\ clock = Today
  /\ clock' = Tomorrow
  /\ UNCHANGED <<variant, cfg, cacheVars, fetch, req, res, budget>>

ApodUpstreamDay(r) == ApodSettle(r, DayAnswers)

NextDays ==
  \E r \in Reqs :
    \/ ApodArrive(r)
    \/ ApodUpstreamDay(r)
    \/ ApodCached(r)
    \/ OnTimeout(r)
    \/ ResFinish(r)
    \/ ExistsCheck(r)
    \/ DnsLookup(r)
    \/ HeadPreflight(r)
    \/ GetImage(r)
    \/ OpenFile(r)
    \/ PipeStream(r)
    \/ SleepDone(r)
    \/ Midnight

SpecDays == InitDays /\ [][NextDays]_vars

(***************************************************************************)
(* SpecEither: either program with an API key serving one request,         *)
(* src/server.js to /api/nasa/apod and part_000 to /api/nasa/epic, the     *)
(* environment failing at most MaxEitherFaults requests or writes.         *)
(***************************************************************************)
MaxEitherFaults == 3

InitEither ==
  /\ variant \in {"server", "epic"}
  /\ cfg = [NASA_API_KEY |-> "KEY", PUBLIC_BASE_URL |-> ""]
  /\ CacheInit
  /\ req = [r \in Reqs |-> IdleReq]
  /\ res = [r \in Reqs |-> IdleRes]
  /\ clock = Today
  /\ budget = AtMost(MaxEitherFaults)

NextEither ==
  \/ ApodArrive(1)
  \/ ApodUpstreamOne
  \/ ApodCached(1)
  \/ EpicArriveOne
  \/ EpicAvailable(1)
  \/ EpicItems(1)
  \/ EpicToday(1)
  \/ EpicCandidate(1)
  \/ OnTimeout(1)
  \/ ResFinish(1)
  \/ FetchGet(1, OneBodies)
  \/ FetchSleepDone(1)
  \/ ExistsCheck(1)
  \/ DnsLookup(1)
  \/ HeadPreflight(1)
  \/ GetImage(1)
  \/ OpenFile(1)
  \/ PipeStream(1)
  \/ SleepDone(1)

SpecEither == InitEither /\ [][NextEither]_vars

(***************************************************************************)
(* SpecNoKey: either program started without NASA_API_KEY, src/server.js   *)
(* serving /api/nasa/apod and part_000 serving /api/nasa/epic, the         *)
(* environment failing at most MaxNoKeyFaults requests or writes.          *)
(***************************************************************************)
MaxNoKeyFaults == 3

InitNoKey ==
  /\ variant \in {"server", "epic"}
  /\ cfg = [NASA_API_KEY |-> "", PUBLIC_BASE_URL |-> ""]
  /\ CacheInit
  /\ req = [r \in Reqs |-> IdleReq]
  /\ res = [r \in Reqs |-> IdleRes]
  /\ clock = Today
  /\ budget = AtMost(MaxNoKeyFaults)

NextNoKey ==
  \E r \in Reqs :
    \/ ApodArrive(r)
    \/ EpicArrive(r)
    \/ EpicCandidate(r)
    \/ OnTimeout(r)
    \/ ResFinish(r)
    \/ ExistsCheck(r)
    \/ GetImage(r)
    \/ OpenFile(r)
    \/ PipeStream(r)
    \/ SleepDone(r)

SpecNoKey == InitNoKey /\ [][NextNoKey]_vars

(***************************************************************************)
(* Claims about cacheImageIfNeeded and fetchJsonWithRetry.                 *)
(***************************************************************************)

C3_NoPartialFileVisible ==
  \A k \in DOMAIN files : files[k].state = "complete"

\* C4 (as stated): once a file exists at PUBLIC_DIR/K no call opens it for
\* writing again.
C4_NeverReopened ==
  \A c \in Reqs : ~call[c].reopened

\* C4 (amended): a call whose existence check finds a file at PUBLIC_DIR/K never
\* opens it for writing and issues no request; only calls whose check found no
\* file open the path.
C4_FoundFileNeverOpened ==
  \A c \in Reqs :
    /\ call[c].sawFile => call[c].nOpen = 0 /\ call[c].nGet = 0 /\ call[c].nHead = 0
    /\ call[c].nOpen > 0 => ~call[c].sawFile /\ call[c].pc # "ensureDir"

\* One call has found the file written by another one and has returned.
C4_Witness ==
  \E c, d \in Reqs :
    /\ c # d
    /\ call[d].nOpen > 0
    /\ call[c].sawFile /\ call[c].pc = "returned" /\ call[c].subpath = call[d].subpath

\* C6: a 404 answered to the HEAD preflight or to the GET ends the call: no
\* request and no backoff delay follows it, and the call returns null.
C6_NotFoundEndsCall ==
  \A c \in Reqs :
    call[c].last.st = 404 =>
      /\ call[c].pc = "returned" /\ call[c].result = Null
      /\ Len(call[c].delays) = call[c].i - 1
      /\ call[c].last.op = "HEAD" => call[c].nHead = call[c].i /\ call[c].nGet = call[c].i - 1
      /\ call[c].last.op = "GET" => call[c].nGet = call[c].i

\* One call ended by a HEAD 404 and one ended by the 404 of its second GET.
C6_Witness ==
  \E c, d \in Reqs :
    /\ call[c].pc = "returned" /\ call[c].last = [op |-> "HEAD", st |-> 404]
    /\ call[d].pc = "returned" /\ call[d].last = [op |-> "GET", st |-> 404]
    /\ call[d].i = 2

\* C7: a 429 is retried until the attempt budget is used up, with delays
\* base x 2^(attempt-1): 300 ms then 600 ms between the up to 3 GETs of
\* cacheImageIfNeeded, initialDelayMs x 2^(i-1) between the up to `attempts`
\* GETs of fetchJsonWithRetry.
C7_RateLimitRetriedWithBackoff ==
  /\ \A c \in Reqs :
       /\ call[c].delays \in {<<>>, <<300>>, <<300, 600>>}
       /\ call[c].nGet <= 3
       /\ call[c].last = [op |-> "GET", st |-> 429] =>
            \/ /\ call[c].pc = "sleep"
               /\ call[c].nGet < 3
               /\ Len(call[c].delays) = call[c].nGet
            \/ /\ call[c].pc = "returned"
               /\ call[c].nGet = 3
               /\ call[c].delays = <<300, 600>>
  /\ \A r \in Reqs :
       /\ fetch[r].nGet <= fetch[r].attempts
       /\ \A j \in DOMAIN fetch[r].delays :
            /\ fetch[r].delays[j] = fetch[r].initialDelayMs * 2^(j - 1)
            /\ j > 1 => fetch[r].delays[j] > fetch[r].delays[j - 1]
       /\ fetch[r].lastErr = 429 =>
            \/ /\ fetch[r].pc = "sleep"
               /\ fetch[r].nGet < fetch[r].attempts
               /\ Len(fetch[r].delays) = fetch[r].nGet
            \/ /\ fetch[r].pc = "get"
               /\ fetch[r].nGet < fetch[r].attempts
            \/ /\ fetch[r].pc = "returned"
               /\ fetch[r].nGet > 1
            \/ /\ fetch[r].pc = "threw"
               /\ fetch[r].nGet = fetch[r].attempts
               /\ Len(fetch[r].delays) = fetch[r].attempts - 1

\* Both loops have used their whole budget on 429 answers.
C7_Witness ==
  /\ call[1].pc = "returned" /\ call[1].last = [op |-> "GET", st |-> 429]
  /\ call[1].delays = <<300, 600>>
  /\ fetch[1].pc = "threw" /\ fetch[1].lastErr = 429
  /\ fetch[1].attempts = 3 /\ Len(fetch[1].delays) = 2

\* C8: in the image download loop a GET answered with a 4xx other than 429
\* (here 403) ends the loop at once: the call has returned.
C8_ClientErrorEndsImageLoop ==
  \A c \in Reqs :
    call[c].last = [op |-> "GET", st |-> 403] => call[c].pc = "returned"

(***************************************************************************)
(* Claims about the /api/nasa/apod handler of src/server.js (SpecApod).    *)
(***************************************************************************)
\* C1: for every request at most one response is ever written, no second write
\* is attempted, and whatever is written is written by the handler: the
\* deadline timer only sets req.timedOut.
C1_AtMostOneResponse ==
  \A r \in Reqs :
    /\ Len(res[r].sent) <= 1
    /\ res[r].rejected = 0
    /\ \A i \in 1..Len(res[r].sent) : res[r].sent[i].by = "handler"
    /\ req[r].timer = "fired" => req[r].timedOut

\* C1 witness: the timer has fired on a request answered from the success path
\* after a cache call, and on another answered from the fallback path.
C1_Witness ==
  \E r1, r2 \in Reqs :
    /\ req[r1].timedOut /\ req[r1].nCalls = 1 /\ Len(res[r1].sent) = 1
    /\ res[r1].sent[1].body.title = "upstream"
    /\ req[r2].timedOut /\ Len(res[r2].sent) = 1
    /\ res[r2].sent[1].body.title = "Earthrise"

\* C9: every response the handler writes has status 200 and a JSON body.
C9_AlwaysOkJson ==
  \A r \in Reqs : \A i \in 1..Len(res[r].sent) :
    /\ res[r].sent[i].status = 200
    /\ res[r].sent[i].type = "json"

\* C9 witness: one request answered after its upstream call failed, another
\* answered after its image could not be cached.
C9_Witness ==
  \E r1, r2 \in Reqs :
    /\ req[r1].nUpstream = 1 /\ Len(res[r1].sent) = 1
    /\ res[r1].sent[1].body.title = "Earthrise"
    /\ req[r2].nCalls = 1 /\ Len(res[r2].sent) = 1
    /\ res[r2].sent[1].body.title = "upstream"
    /\ res[r2].sent[1].body.display_url = Null

(***************************************************************************)
(* Claims about the /api/nasa/epic handler of part_000 (SpecEpic).         *)
(***************************************************************************)
\* The arrays that the handler of request r has sent.
EpicSent(r) ==
  {res[r].sent[i].body.elems : i \in {j \in 1..Len(res[r].sent) : res[r].sent[j].by = "handler"}}

\* C5: two requests for the same date and collection that were handled
\* concurrently never carry, for the same upstream record, image_url values
\* that name different files of the store.
C5_ConcurrentSameImageUrl ==
  \A r1, r2 \in Reqs :
    (/\ r1 \in req[r2].inflight
     /\ req[r1].dateParam = req[r2].dateParam
     /\ req[r1].colls = req[r2].colls)
    => \A b1 \in EpicSent(r1), b2 \in EpicSent(r2) :
         \A i \in 1..Len(b1), j \in 1..Len(b2) :
           (/\ b1[i].identifier = b2[j].identifier
            /\ b1[i].collection = b2[j].collection
            /\ b1[i].image_url # Null
            /\ b2[j].image_url # Null)
           => b1[i].image_url.subpath = b2[j].image_url.subpath

\* C10: a response of the handler in which no element has an image_url is the
\* built-in single-element fallback array.
C10_NoImageMeansFallback ==
  \A r \in Reqs : \A b \in EpicSent(r) :
    (\A i \in 1..Len(b) : b[i].image_url = Null) => b = <<EpicFallbackRecord>>

\* C11: when the upstream APOD call fails, the response is the Earthrise
\* fallback object (title "Earthrise", an image, dated today, url and hdurl the
\* Earthrise image, display_url equal to hdurl) with status 200, and the request
\* makes no cache call, so nothing is downloaded or written for it.
C11_UpstreamFailureGivesFallback ==
  \A r \in Reqs :
    req[r].upstreamErr # NoErr =>
      /\ Len(res[r].sent) = 1
      /\ res[r].sent[1].status = 200
      /\ LET b == res[r].sent[1].body
         IN /\ b.title = "Earthrise"
            /\ b.media_type = "image"
            /\ b.date = clock
            /\ b.url = EarthriseUrl
            /\ b.hdurl = EarthriseUrl
            /\ b.display_url = b.hdurl
            /\ b.original_url = Null /\ b.thumbnail_url = Null /\ b.video_url = Null
      /\ req[r].nCalls = 0
      /\ call[r].pc = "idle"
      /\ \A k \in DOMAIN files : files[k].src # EarthriseUrl

\* C11 witness: a request whose upstream call answered 503 has been answered,
\* while the other request is downloading an image.
C11_Witness ==
  \E r1, r2 \in Reqs :
    /\ req[r1].upstreamErr = 503
    /\ Len(res[r1].sent) = 1
    /\ call[r2].pc = "pipe"

\* C13: after a 429, a 5xx or a network error of the upstream APOD call the
\* call is attempted again: the fallback is served only after DefaultAttempts
\* upstream calls.
C13_UpstreamCallRetried ==
  \A r \in Reqs :
    req[r].upstreamErr \in {429, 503, NoStatus} => req[r].nUpstream >= DefaultAttempts

C12_NoKeyNoUpstreamAndFallback ==
  cfg.NASA_API_KEY = "" =>
    \A r \in Reqs :
      /\ fetch[r].pc = "idle"
      /\ req[r].nUpstream = 0
      /\ call[r].pc # "idle" => call[r].sourceUrl.host # "api.nasa.gov"
      /\ variant = "server" => call[r].pc = "idle"
      /\ \A i \in 1..Len(res[r].sent) :
           /\ res[r].sent[i].status = 200
           /\ IF variant = "server"
                THEN res[r].sent[i].body.title = "Earthrise"
                ELSE /\ Len(res[r].sent[i].body.elems) = 1
                     /\ res[r].sent[i].body.elems[1].identifier = EpicFallbackRecord.identifier

(***************************************************************************)
(* Claims about one request to /api/nasa/epic (SpecEpicOne).               *)
(***************************************************************************)
\* The handler with locals rq is awaiting an upstream API call.
AwaitsUpstream(rq) == rq.pc \in {"available", "items", "today"}

\* C15: the first upstream call of a request asks the natural collection,
\* or the enhanced one when the request has collection=enhanced; the handler
\* changes collection once only, to the other one, and only when the first has
\* yielded no non-empty record array (neither for a date nor without a date).
C15_CollectionOrder ==
  [][\A r \in Reqs :
       LET first == IF req'[r].collection = "enhanced" THEN "enhanced" ELSE "natural"
           second == IF first = "enhanced" THEN "natural" ELSE "enhanced"
       IN /\ (~AwaitsUpstream(req[r]) /\ AwaitsUpstream(req'[r]))
               => Asking(req'[r]).coll = first
          /\ (/\ AwaitsUpstream(req[r])
              /\ AwaitsUpstream(req'[r])
              /\ Asking(req'[r]).coll # Asking(req[r]).coll)
               => /\ Asking(req[r]).coll = first
                  /\ Asking(req'[r]).coll = second
                  /\ req[r].pc = "today"
                  /\ ~NonEmptyArray(Settled(r))
                  /\ ~NonEmptyArray(req[r].items)]_vars

\* C15 witness: a request with collection=enhanced is asking the natural
\* collection for the records of a date.
C15_Witness ==
  \E r \in Reqs :
    /\ req[r].collection = "enhanced"
    /\ req[r].pc = "items"
    /\ Asking(req[r]).coll = "natural"

\* The dates that the upstream listing fetch[r] has settled with names.
Listed(r) ==
  IF IsArray(Settled(r)) THEN {Settled(r).elems[i] : i \in 1..Len(Settled(r).elems)} ELSE {}

\* The step is one of the handler of r going on after its upstream call settled.
AfterUpstream(r) == fetch[r].pc \in {"returned", "threw"} /\ fetch'[r] # fetch[r]

\* C16: once the available dates of a collection are known, the dates asked
\* for are the explicit date of the request first, if it has one, and then the
\* listed dates among the 3 most recent, most recent first (the explicit date
\* not again); they are asked one after the other, the next only when the one
\* before gave no non-empty array, and none once a date gave one.
C16_DateOrder ==
  [][\A r \in Reqs :
       /\ (req[r].pc = "available" /\ AfterUpstream(r)
           /\ (req[r].dateParam # Null \/ Listed(r) # {}))
            => LET explicit == req[r].dateParam
                   plan == req'[r].dates
                   n == IF explicit # Null THEN 1 ELSE 0
                   latest == {a \in Listed(r) :
                                Cardinality({b \in Listed(r) : DateNum(b) > DateNum(a)}) < 3}
               IN /\ req'[r].pc = "items"
                  /\ req'[r].di = 1
                  /\ Asking(req'[r]).date = plan[1]
                  /\ explicit # Null => plan[1] = explicit
                  /\ Len(plan) - n <= 3
                  /\ {plan[i] : i \in (n + 1)..Len(plan)} = latest \ {explicit}
                  /\ \A i, j \in (n + 1)..Len(plan) :
                       i < j => DateNum(plan[i]) > DateNum(plan[j])
       /\ (req[r].pc = "items" /\ req'[r].pc = "items" /\ AfterUpstream(r))
            => /\ ~NonEmptyArray(Settled(r))
               /\ req'[r].dates = req[r].dates
               /\ req'[r].di = req[r].di + 1
               /\ Asking(req'[r]).coll = Asking(req[r]).coll
               /\ Asking(req'[r]).date = req[r].dates[req[r].di + 1]
       /\ (req[r].pc = "items" /\ AfterUpstream(r) /\ NonEmptyArray(Settled(r)))
            => ~AwaitsUpstream(req'[r])]_vars

\* C16 witness: a request without a date is asking for the third most recent
\* of four listed dates, after the two more recent ones.
C16_Witness ==
  \E r \in Reqs :
    /\ req[r].dateParam = Null
    /\ req[r].pc = "items"
    /\ req[r].dates = <<Day11, EpicDay, Day09>>
    /\ req[r].di = 3

\* ---------------------------------------------------------------------------
\* C17: when the explicit date and the listed dates of a collection have all
\* been asked and none gave a non-empty array, the handler asks next for the
\* records of yesterday in the same collection.
C17_YesterdayAfterDates ==
  [][\A r \in Reqs :
       (/\ req[r].pc = "items" /\ AfterUpstream(r)
        /\ req[r].di = Len(req[r].dates)
        /\ ~NonEmptyArray(Settled(r))
        /\ \A i \in 1..Len(req[r].dates) : req[r].dates[i] # Yesterday(clock))
         => /\ req'[r].pc = "items"
            /\ Asking(req'[r]).coll = Asking(req[r]).coll
            /\ Asking(req'[r]).date = Yesterday(clock)]_vars

\* ---------------------------------------------------------------------------
\* The step passes a candidate of request r to cacheImageIfNeeded.
Passed(r) == call'[r].pc = "ensureDir" /\ call[r].pc # "ensureDir"

\* The mirror, size and extension of a source URL of an EPIC image.
MirrorOf(u) ==
  [host |-> u.host, thumbs |-> u.dirs[Len(u.dirs)] = "thumbs", ext |-> u.ext,
   image |-> u.name[1]]

\* Mirror m is the k-th of the order primary full png, primary full jpg,
\* secondary full png, secondary full jpg, primary thumbnail, secondary thumbnail.
InOrder(m, k) ==
  /\ m.host = (IF k \in {1, 2, 5} THEN "epic.gsfc.nasa.gov" ELSE "api.nasa.gov")
  /\ m.thumbs = (k \in {5, 6})
  /\ m.ext = (IF k \in {1, 3} THEN ".png" ELSE ".jpg")

\* C18: with a key configured, the candidates of a record of the batch are
\* passed to cacheImageIfNeeded in the order epic.gsfc.nasa.gov png, jpg,
\* api.nasa.gov png, jpg, epic.gsfc.nasa.gov thumbnail jpg, api.nasa.gov
\* thumbnail jpg, each only after the one before it returned no URL, and the
\* first only when the record before it, if any, ended without a URL.
C18_RecordCandidateOrder ==
  [][\A r \in Reqs :
       (Passed(r) /\ req'[r].path = "main")
         => LET k == req'[r].ki
                it == Slice(req'[r].items)[req'[r].si]
                m == MirrorOf(call'[r].sourceUrl)
            IN /\ k \in 1..6
               /\ m.image = it.image
               /\ InOrder(m, k)
               /\ IF k > 1
                    THEN /\ req[r].pc = "candidate" /\ req[r].path = "main"
                         /\ req[r].si = req'[r].si /\ req[r].ki = k - 1
                         /\ call[r].pc = "returned" /\ call[r].result = Null
                    ELSE \/ req[r].pc # "candidate" /\ req'[r].si = 1
                         \/ /\ req[r].pc = "candidate" /\ req[r].path = "main"
                            /\ req'[r].si = req[r].si + 1 /\ req[r].ki = 6
                            /\ call[r].pc = "returned" /\ call[r].result = Null]_vars

\* C18 witness: the thumbnail of api.nasa.gov, the sixth candidate of a record,
\* is with cacheImageIfNeeded.
C18_Witness ==
  \E r \in Reqs :
    /\ req[r].pc = "candidate" /\ req[r].path = "main" /\ req[r].ki = 6
    /\ call[r].pc \notin {"idle", "returned"}
    /\ call[r].sourceUrl.host = "api.nasa.gov"

\* ---------------------------------------------------------------------------
\* C19: the candidates of the built-in fallback record are passed to
\* cacheImageIfNeeded in the order of the candidates of an upstream record:
\* the k-th one passed is the k-th of primary full png, primary full jpg,
\* secondary full png, secondary full jpg, primary thumbnail, secondary
\* thumbnail.
C19_FallbackSameOrder ==
  [][\A r \in Reqs :
       (Passed(r) /\ req'[r].path = "fallback")
         => LET m == MirrorOf(call'[r].sourceUrl)
            IN /\ m.image = EpicFallbackRecord.image
               /\ InOrder(m, req'[r].ki)]_vars

\* C19 as the code has it: with a key configured, the candidates of the
\* built-in fallback record are passed to cacheImageIfNeeded in one pass in the
\* order primary full png, primary full jpg, primary thumbnail, secondary full
\* png, secondary full jpg, secondary thumbnail, all of the natural
\* collection, each only after the one before it returned no URL.
C19_FallbackOrder ==
  [][\A r \in Reqs :
       /\ (Passed(r) /\ req'[r].path = "fallback")
            => LET k == req'[r].ki
                   u == call'[r].sourceUrl
                   m == MirrorOf(u)
               IN /\ k \in 1..6
                  /\ m.image = EpicFallbackRecord.image
                  /\ \E i \in 1..Len(u.dirs) : u.dirs[i] = "natural"
                  /\ m.host = (IF k <= 3 THEN "epic.gsfc.nasa.gov" ELSE "api.nasa.gov")
                  /\ m.thumbs = (k \in {3, 6})
                  /\ m.ext = (IF k \in {1, 4} THEN ".png" ELSE ".jpg")
                  /\ IF k > 1
                       THEN /\ req[r].pc = "candidate" /\ req[r].path = "fallback"
                            /\ req[r].ki = k - 1
                            /\ call[r].pc = "returned" /\ call[r].result = Null
                       ELSE req[r].path # "fallback"
       /\ req[r].path = "fallback" => req'[r].path = "fallback"]_vars

\* C19 witness: the thumbnail of api.nasa.gov, the sixth candidate of the
\* fallback record, is with cacheImageIfNeeded.
C19_Witness ==
  \E r \in Reqs :
    /\ req[r].pc = "candidate" /\ req[r].path = "fallback" /\ req[r].ki = 6
    /\ call[r].pc \notin {"idle", "returned"}
    /\ call[r].sourceUrl.host = "api.nasa.gov"

\* ---------------------------------------------------------------------------
\* cacheImageIfNeeded has returned a URL for a candidate of a record of the
\* batch of request r.
BatchCached(r) ==
  /\ IsArray(req[r].items)
  /\ \E i \in 1..Len(Slice(req[r].items)) :
       LET cs == RecordCandidates(usedCollection(req[r]), Slice(req[r].items)[i])
       IN \E j \in 1..Len(cs) : cs[j].key \in cachedOk

\* The step is an outbound request of request r: a GET of the EPIC API or of an image.
Outbound(r) ==
  \/ fetch'[r].nGet = fetch[r].nGet + 1
  \/ call'[r].sourceUrl = call[r].sourceUrl /\ call'[r].nGet = call[r].nGet + 1

\* C20: the records of the batch are processed in order and at most the first
\* two of them; an array the handler sends has at most 2 elements, at most one
\* of them with an image_url; and once a candidate of a record of the batch
\* is cached, the request issues no further outbound request.
C20_StopsAtFirstCached ==
  [][\A r \in Reqs :
       /\ (Passed(r) /\ req'[r].path = "main")
            => /\ req'[r].si \in 1..2
               /\ req'[r].si \in {req[r].si, req[r].si + 1}
                    \/ (req[r].pc # "candidate" /\ req'[r].si = 1)
       /\ \A b \in EpicSent(r)' :
            /\ Len(b) <= 2
            /\ Cardinality({i \in 1..Len(b) : b[i].image_url # Null}) <= 1
       /\ BatchCached(r) => ~Outbound(r)]_vars

(***************************************************************************)
(* Claims about the records of /api/nasa/apod (SpecApodOne).               *)
(***************************************************************************)
\* The bodies that the handler of request r has sent.
ApodSent(r) ==
  {res[r].sent[i].body : i \in {j \in 1..Len(res[r].sent) : res[r].sent[j].by = "handler"}}

Reclassified(r) ==
  /\ req[r].nasaData # Null /\ req[r].answer # Null
  /\ req[r].nasaData.isNasaHosted
  /\ req[r].nasaData.media_type = "video"
  /\ req[r].nasaData.thumbnail_url = PlaceholderUrl

\* C22: a record is rewritten as a video with the placeholder thumbnail only
\* when upstream tagged it "other" and its explanation contains "video",
\* "animation" or "time-lapse"; a record tagged image keeps its kind.
C22_OnlyOtherReclassified ==
  \A r \in Reqs :
    /\ Reclassified(r)
         => req[r].answer.media_type = "other" /\ MentionsVideo(req[r].answer)
    /\ (req[r].answer # Null /\ req[r].nasaData # Null /\ req[r].answer.media_type = "image")
         => req[r].nasaData.media_type = "image"

\* C23: for a record of kind video with a url from which no video id is
\* derived, thumbnail_url is the placeholder and the placeholder is what is
\* passed to cacheImageIfNeeded.
C23_PlaceholderWithoutId ==
  \A r \in Reqs :
    (/\ req[r].answer # Null /\ req[r].nasaData # Null
     /\ req[r].answer.media_type = "video" /\ req[r].answer.url # Null
     /\ extractYouTubeId(req[r].answer.url) = <<>>)
    => /\ req[r].nasaData.thumbnail_url = PlaceholderUrl
       /\ req[r].originalDisplay = PlaceholderUrl
       /\ req[r].nCalls = 1

\* u is a YouTube-style URL with at least 11 characters where the id stands.
HasYouTubeId(u) ==
  /\ u # Null /\ "form" \in DOMAIN u
  /\ \/ u.host = "www.youtube.com" /\ u.form \in {"embed", "watch"}
     \/ u.host = "youtu.be" /\ u.form = "short"
  /\ Len(u.token) >= 11

\* C24: for a record of kind video whose url is a YouTube-style URL with an
\* 11-character id, thumbnail_url is https://img.youtube.com/vi/<id>/hqdefault.jpg,
\* video_url is the url as it arrived, and that thumbnail is the one
\* candidate passed to cacheImageIfNeeded.
C24_YouTubeThumbnail ==
  \A r \in Reqs :
    (/\ req[r].answer # Null /\ req[r].nasaData # Null
     /\ req[r].answer.media_type = "video" /\ HasYouTubeId(req[r].answer.url))
    => LET u == req[r].answer.url
           thumb == [kind |-> "url", scheme |-> "https", host |-> "img.youtube.com",
                     dirs |-> <<"vi">> \o [i \in 1..11 |-> u.token[i]],
                     name |-> <<"hqdefault">>, ext |-> ".jpg", query |-> ""]
       IN /\ req[r].nasaData.thumbnail_url = thumb
          /\ req[r].nasaData.video_url = u
          /\ req[r].nasaData.url = u
          /\ req[r].originalDisplay = thumb
          /\ req[r].nCalls = 1
          /\ req[r].pc = "caching" => call[r].sourceUrl = thumb
          /\ req[r].nasaData.original_url \in {Null, thumb}

\* C24 witness: the thumbnail of a youtu.be url whose token is longer than
\* 11 characters has been cached and the record sent.
C24_Witness ==
  \E r \in Reqs :
    /\ req[r].pc = "done" /\ req[r].answer # Null
    /\ req[r].answer.media_type = "video"
    /\ HasYouTubeId(req[r].answer.url) /\ Len(req[r].answer.url.token) > 11
    /\ req[r].nasaData.display_url # Null
    /\ res[r].headersSent

(***************************************************************************)
(* Claims about both programs (SpecEither).                                *)
(***************************************************************************)
\* The outbound operations of request r that have been started and have not
\* settled: a step of cacheImageIfNeeded (DNS lookup, HEAD, GET, file write),
\* a GET of fetchJsonWithRetry, the upstream GET of the APOD handler.
Outstanding(r) ==
  (IF call[r].pc \in {"dns", "head", "get", "open", "pipe", "hung"} THEN {"image"} ELSE {})
  \cup (IF fetch[r].pc = "get" THEN {"fetch"} ELSE {})
  \cup (IF req[r].pc = "upstream" THEN {"apod"} ELSE {})

\* C25: a request has at most one outbound operation outstanding; a candidate
\* is passed to cacheImageIfNeeded only when the call before it has returned
\* and the upstream GET has settled, a further attempt of the download loop starts
\* only from its backoff, and an upstream GET only when no call is outstanding.
C25_OneAtATime ==
  [][\A r \in Reqs :
       /\ Cardinality(Outstanding(r)') <= 1
       /\ Passed(r) => /\ call[r].pc \in {"idle", "returned"}
                        /\ fetch[r].pc # "get"
                        /\ Outstanding(r)' = {}
       /\ (call'[r].pc \notin {"idle", "ensureDir"} /\ call'[r].i # call[r].i)
            => /\ call[r].pc = "sleep" /\ call'[r].i = call[r].i + 1
               /\ Outstanding(r) = {}
       /\ (fetch'[r].pc = "get" /\ fetch[r].pc # "get")
            => Outstanding(r) = {}]_vars

\* C25 witness: the second attempt of the download of the second candidate
\* of an EPIC record is under way.
C25_Witness ==
  \E r \in Reqs :
    /\ req[r].pc = "candidate" /\ req[r].ki = 2
    /\ call[r].pc = "get" /\ call[r].i = 2
    /\ Outstanding(r) = {"image"}

\* C26: a HEAD preflight that fails or is answered with a status other than
\* 404 does not end the call: the call goes on to the GET of the same attempt,
\* and the GET is the next thing the call does.
C26_HeadNeverFatal ==
  [][\A r \in Reqs :
       /\ (/\ call[r].pc = "head"
           /\ call'[r].nHead = call[r].nHead + 1
           /\ call'[r].last # [op |-> "HEAD", st |-> 404])
            => /\ call'[r].pc = "get"
               /\ call'[r].i = call[r].i
               /\ call'[r].sourceUrl = call[r].sourceUrl
               /\ call'[r].result = Null
       /\ (call[r].pc = "get" /\ call'[r] # call[r])
            => call'[r].nGet = call[r].nGet + 1]_vars

\* C26 witness: the HEAD of the first attempt was not answered with 200 (the
\* one fault so far), and the GET of that attempt has been issued and answered.
C26_Witness ==
  \E r \in Reqs :
    /\ variant = "server"
    /\ call[r].pc = "open" /\ call[r].i = 1
    /\ call[r].nHead = 1 /\ call[r].nGet = 1
    /\ budget = AtMost(MaxApodFaults - 1)

\* The records that the handler of request r has sent.
SentRecords(r) ==
  IF variant = "server" THEN ApodSent(r)
  ELSE UNION {{b[i] : i \in 1..Len(b)} : b \in EpicSent(r)}

\* The public URL a sent record carries for its cached file.
ServedUrl(rec) == IF rec.kind = "apod" THEN rec.display_url ELSE rec.image_url

\* C27: a sent record that carries original_url names there the remote URL
\* from which the bytes of the file under its cache key were downloaded.
C27_OriginalIsSource ==
  \A r \in Reqs :
    \A rec \in SentRecords(r) :
      rec.original_url # Null
        => /\ ServedUrl(rec) # Null /\ ServedUrl(rec).kind = "cdn"
           /\ ServedUrl(rec).subpath \in DOMAIN files
           /\ files[ServedUrl(rec).subpath].src = rec.original_url

(***************************************************************************)
(* Further claims about cacheImageIfNeeded (SpecCache).                    *)
(***************************************************************************)
\* C28: a call of cacheImageIfNeeded ends by returning, never by throwing:
\* it returns the public URL of its key when it found the file or has written
\* it, and then a file exists at the key's path, and it returns null when it
\* ends on a HEAD 404, on a failed GET, on a write error or with a source URL
\* that does not parse.
C28_ReturnsUrlOrNull ==
  [][\A c \in Reqs :
       (call'[c].pc = "returned" /\ call[c].pc # "returned")
         => LET cr == call'[c]
            IN /\ cr.result \in {Null, CdnUrl(c, cr.subpath)}
               /\ cr.result # Null
                    => /\ cr.subpath \in DOMAIN files'
                       /\ \/ call[c].pc = "ensureDir" /\ cr.subpath \in DOMAIN files
                          \/ call[c].pc = "pipe" /\ files'[cr.subpath].src = cr.sourceUrl
               /\ cr.result = Null
                    => /\ call[c].pc \in {"head", "get", "open", "pipe"}
                       /\ call[c].pc \in {"head", "get"} => cr.last.st # 200
               /\ (call[c].pc # "ensureDir" /\ ~IsValidUrl(cr.sourceUrl)) => cr.result = Null
               /\ call[c].pc \in {"head", "get", "open"} => cr.result = Null]_vars

\* C28 witness: a call has returned null after the write of its third attempt failed.
C28_Witness ==
  \E c \in Reqs :
    /\ call[c].pc = "returned" /\ call[c].result = Null
    /\ call[c].i = 3 /\ call[c].nOpen >= 1
    /\ call[c].last = [op |-> "GET", st |-> 200]

\* C29: a path of the store stays in the store, so a file that exists when
\* cacheImageIfNeeded is called exists at its existence check; and a call
\* whose check finds the file goes straight to its return, with the public URL
\* of its key, without a DNS lookup, a HEAD or a GET and without touching the
\* store, whatever its sourceUrl is.
C29_StoreHitIsFree ==
  [][/\ \A k \in DOMAIN files : k \in DOMAIN files'
     /\ \A c \in Reqs :
          (/\ call[c].pc = "ensureDir" /\ call'[c] # call[c]
           /\ call[c].subpath \in DOMAIN files)
            => /\ call'[c].pc = "returned"
               /\ call'[c].result = CdnUrl(c, call[c].subpath)
               /\ call'[c].nHead = 0 /\ call'[c].nGet = 0 /\ call'[c].nOpen = 0
               /\ call'[c].delays = <<>>
               /\ files' = files]_vars

\* C29 witness: a call with a source URL that does not parse, and that differs
\* from the source of the file under its key, has returned the public URL.
C29_Witness ==
  \E c \in Reqs :
    /\ call[c].pc = "returned" /\ call[c].sawFile
    /\ call[c].sourceUrl = BadUrl
    /\ files[call[c].subpath].src # call[c].sourceUrl
    /\ call[c].result = CdnUrl(c, call[c].subpath)

(***************************************************************************)
(* Claims about the cache key (SpecDays).                                  *)
(***************************************************************************)
\* C30: two requests that received the identical record and chose the same
\* extension pass the identical key to cacheImageIfNeeded, whenever they
\* arrived and whatever the store holds, also when the record has no date.
C30_KeyFromRecordOnly ==
  \A r1, r2 \in Reqs :
    (/\ req[r1].pc = "caching" /\ req[r2].pc = "caching"
     /\ req[r1].answer = req[r2].answer
     /\ ExtOf(req[r1].originalDisplay) = ExtOf(req[r2].originalDisplay))
    => call[r1].subpath = call[r2].subpath


(***************************************************************************)
(* SpecBase: cacheImageIfNeeded under every configuration of the public    *)
(* base: PUBLIC_BASE_URL drawn from BaseUrls, the headers of the requests  *)
(* from HeaderSets, at most MaxBaseFaults failures of the environment.     *)
(***************************************************************************)
MaxBaseFaults == 1

HeaderSets ==
  [xfproto : {"", "https", "https, http"}, protocol : {"http"},
   xfhost : {"", "proxy.example.com"}, host : {"", "app.internal"}]

InitBase ==
  /\ variant = "server"
  /\ \E b \in BaseUrls : cfg = [NASA_API_KEY |-> "KEY", PUBLIC_BASE_URL |-> b]
  /\ CacheInit
  /\ \E h \in HeaderSets : req = [r \in Reqs |-> [IdleReq EXCEPT !.headers = h]]
  /\ res = [r \in Reqs |-> IdleRes]
  /\ clock = Today
  /\ budget = AtMost(MaxBaseFaults)

SpecBase == InitBase /\ [][NextCache]_vars

\* <proto>://<host> of the incoming request r.
RequestBase(r) ==
  <<FirstProto(IF req[r].headers.xfproto # "" THEN req[r].headers.xfproto
               ELSE req[r].headers.protocol),
    "://",
    IF req[r].headers.xfhost # "" THEN req[r].headers.xfhost ELSE req[r].headers.host>>

\* The base the specification describes for request r: PUBLIC_BASE_URL when it is
\* set, and otherwise <proto>://<host> of the incoming request.
DescribedBase(r) ==
  IF cfg.PUBLIC_BASE_URL # "" THEN <<cfg.PUBLIC_BASE_URL>> ELSE RequestBase(r)

\* An absolute base: a configured URL that has a scheme, or <proto>://<host> with
\* a host.
IsAbsoluteBase(b) ==
  \/ Len(b) = 1 /\ StartsWithHttp(b[1])
  \/ Len(b) = 3 /\ b[1] # "" /\ b[2] = "://" /\ b[3] # ""

\* C31 (refuted; spec.md "The URL cacheImageIfNeeded returns is always an absolute
\* URL of the form <base>/cdn/<subpath>, where <base> is PUBLIC_BASE_URL whenever
\* that is configured and otherwise <proto>://<host> of the incoming request"):
\* every URL a call returns is absolute and has the described base.
C31_AbsoluteCdnUrl ==
  \A c \in Reqs :
    call[c].pc = "returned" /\ call[c].result # Null =>
      /\ call[c].result.kind = "cdn"
      /\ call[c].result.subpath = call[c].subpath
      /\ call[c].result.base = DescribedBase(c)
      /\ IsAbsoluteBase(call[c].result.base)

\* What the code does: a PUBLIC_BASE_URL that does not start with "http" is not
\* used, and without a Host header the base is empty and the URL is relative.
C31_BaseAsCoded ==
  \A c \in Reqs :
    call[c].pc = "returned" /\ call[c].result # Null =>
      /\ call[c].result.kind = "cdn"
      /\ call[c].result.subpath = call[c].subpath
      /\ StartsWithHttp(cfg.PUBLIC_BASE_URL) =>
           call[c].result.base = <<cfg.PUBLIC_BASE_URL>>
      /\ ~StartsWithHttp(cfg.PUBLIC_BASE_URL) =>
           call[c].result.base =
             IF ReqHeaders(c).xfhost = "" /\ ReqHeaders(c).host = ""
               THEN <<>> ELSE RequestBase(c)

\* A call returned a relative URL, or a base other than the configured one.
C31_RelativeUrl ==
  \E c \in Reqs :
    call[c].pc = "returned" /\ call[c].result # Null /\ call[c].result.base = <<>>

C31_ConfiguredBaseUnused ==
  \E c \in Reqs :
    /\ call[c].pc = "returned" /\ call[c].result # Null
    /\ cfg.PUBLIC_BASE_URL # "" /\ call[c].result.base # <<cfg.PUBLIC_BASE_URL>>


(***************************************************************************)
(* Claims about the deadline middleware of part_000 (SpecEpicOne).         *)
(***************************************************************************)
\* C32 (refuted; spec.md "the external HTTP surface must always return 200 with
\* best-effort JSON rather than propagating an error status"): in the program
\* of part_000 every response written for a request has status 200 and a JSON
\* body, the one written when the deadline fires included.
C32_DeadlineAnswersOk ==
  variant = "epic" =>
    \A r \in Reqs : \A i \in 1..Len(res[r].sent) :
      /\ res[r].sent[i].status = DefaultStatus
      /\ res[r].sent[i].type = "json"
      /\ res[r].sent[i].body # GatewayTimeoutBody

\* The deadline fired before the handler had responded.
C32_DeadlineResponse ==
  \E r \in Reqs :
    /\ variant = "epic" /\ req[r].timer = "fired"
    /\ Len(res[r].sent) = 1 /\ res[r].sent[1].by = "timer"

\* C35 (refuted; spec.md "Deadline-Exceeded -- soft timeout; must not produce a
\* double response"): once the deadline response of a request has been written,
\* its handler attempts no further write (res.json is not called again), so
\* that no refused write takes the handler into its catch block and fallback.
C35_NoWriteAfterDeadline ==
  [][\A r \in Reqs :
       variant = "epic" /\ res[r].headersSent /\ res[r].sent[1].by = "timer" =>
         res'[r].rejected = res[r].rejected]_vars

\* The handler's res.json(enhanced) was refused after the deadline response, the
\* fallback branch ran, and its res.json(fallback) was refused as well.
C35_FallbackAfterDeadline ==
  \E r \in Reqs :
    /\ variant = "epic" /\ Len(res[r].sent) = 1 /\ res[r].sent[1].by = "timer"
    /\ req[r].path = "fallback" /\ req[r].pc = "done" /\ res[r].rejected = 2


(***************************************************************************)
(* Claims about fetchJsonWithRetry (SpecRetry).                            *)
(***************************************************************************)
\* C33: fetchJsonWithRetry(url, {attempts}) issues at most `attempts` GETs; the
\* first successful GET ends the call with its data and nothing is issued after
\* the call has settled; a failed GET with a 4xx other than 429 makes the call
\* throw at once; 429, 5xx and errors without a status are retried after a sleep
\* while attempts are left; the last attempt is followed by no sleep, and the
\* error thrown is the one of the last GET issued.
C33_FetchRetryContract ==
  [][\A r \in Reqs :
       LET fr == fetch[r]
           fn == fetch'[r]
       IN /\ fn.nGet <= fn.attempts
          /\ fr.pc \in {"returned", "threw"} => fn = fr
          /\ fr.pc = "sleep" /\ fn # fr =>
               fn = [fr EXCEPT !.pc = "get", !.i = fr.i + 1]
          /\ fr.pc = "get" /\ fn # fr =>
               /\ fn.nGet = fr.nGet + 1 /\ fn.i = fr.i /\ fr.nGet = fr.i - 1
               /\ fn.pc \in {"returned", "threw", "sleep"}
               /\ fn.pc = "returned" =>
                    fn.data \in FetchBodies /\ fn.lastErr = fr.lastErr /\ fn.delays = fr.delays
               /\ fn.pc = "threw" =>
                    /\ fn.lastErr \in FetchStatuses \ {200} /\ fn.delays = fr.delays
                    /\ fn.data = Null
                    /\ \/ fn.lastErr = 404
                       \/ fn.lastErr \in {429, 503, NoStatus} /\ fr.i = fr.attempts
               /\ fn.pc = "sleep" =>
                    /\ fn.lastErr \in {429, 503, NoStatus} /\ fr.i < fr.attempts
                    /\ fn.delays = Append(fr.delays, fr.initialDelayMs * 2^(fr.i - 1))]_vars

\* A call with attempts: 3 has thrown the 503 of its third GET, having slept
\* twice.
C33_Witness ==
  /\ fetch[1].pc = "threw" /\ fetch[1].attempts = 3 /\ fetch[1].nGet = 3
  /\ fetch[1].lastErr = 503 /\ Len(fetch[1].delays) = 2

\* A call has thrown on the 404 of its first GET although attempts were left.
C33_ClientErrorWitness ==
  /\ fetch[1].pc = "threw" /\ fetch[1].attempts = 3 /\ fetch[1].nGet = 1
  /\ fetch[1].lastErr = 404 /\ fetch[1].delays = <<>>


(***************************************************************************)
(* SpecApodFair: SpecApodOne with progress.  The event loop runs every     *)
(* continuation that is ready, every outbound DNS, HEAD and GET call and   *)
(* every file operation eventually returns or fails, and every timer that  *)
(* is set eventually fires: each step other than the arrival of a request  *)
(* is weakly fair.                                                         *)
(***************************************************************************)
FairApodOne ==
  /\ WF_vars(ApodUpstreamOne)
  /\ WF_vars(ApodCached(1))
  /\ WF_vars(OnTimeout(1))
  /\ WF_vars(ResFinish(1))
  /\ WF_vars(ExistsCheck(1))
  /\ WF_vars(DnsLookup(1))
  /\ WF_vars(HeadPreflight(1))
  /\ WF_vars(GetImage(1))
  /\ WF_vars(OpenFile(1))
  /\ WF_vars(PipeStream(1))
  /\ WF_vars(SleepDone(1))

SpecApodFair == InitApodOne /\ [][NextApodOne]_vars /\ FairApodOne

\* C34 (refuted; spec.md "A soft request-scoped deadline guards against unbounded
\* latency"): every request to /api/nasa/apod that has arrived is eventually
\* answered, also when the image stream fails or stalls after the GET has
\* returned its headers and when the deadline timer fires.
C34_EveryRequestAnswered ==
  \A r \in Reqs : (req[r].pc # "idle") ~> res[r].headersSent

\* What the code guarantees: a request is answered unless the write promise of
\* its image download never settles.
C34_AnsweredUnlessHung ==
  \A r \in Reqs : (req[r].pc # "idle") ~> (res[r].headersSent \/ call[r].pc = "hung")

\* The response stream failed or stalled after the GET returned; the deadline
\* has fired and the request is still unanswered.
C34_HungPastDeadline ==
  \E r \in Reqs :
    /\ call[r].pc = "hung" /\ req[r].pc = "caching"
    /\ req[r].timer = "fired" /\ req[r].timedOut /\ ~res[r].headersSent


(***************************************************************************)
(* The API key in responses (SpecEither).                                  *)
(***************************************************************************)
\* The URL carries the query parameter api_key=<NASA_API_KEY>.
CarriesKey(u) == u.kind = "url" /\ u.query = "api_key="

\* The URLs that the proxy adds to a record.
AddedUrls(rec) ==
  IF rec.kind = "apod" THEN {rec.display_url, rec.original_url, rec.thumbnail_url}
  ELSE {rec.image_url, rec.original_url}

\* C36: no URL that the proxy adds to a sent record (image_url, display_url,
\* original_url, thumbnail_url) carries the NASA API key, also when the file
\* was downloaded from api.nasa.gov with the key in the URL.
C36_NoKeyInAddedUrls ==
  \A r \in Reqs : \A rec \in SentRecords(r) : \A u \in AddedUrls(rec) : ~CarriesKey(u)

\* A sent record whose file was downloaded from api.nasa.gov with the key.
C36_Witness ==
  \E r \in Reqs : \E rec \in SentRecords(r) :
    /\ rec.kind = "epic" /\ rec.image_url # Null /\ rec.original_url # Null
    /\ rec.image_url.subpath \in DOMAIN files
    /\ CarriesKey(files[rec.image_url.subpath].src)
    /\ files[rec.image_url.subpath].src.host = "api.nasa.gov"


(***************************************************************************)
(* The budget of one call of cacheImageIfNeeded (SpecCache).               *)
(***************************************************************************)
\* C37: one call of cacheImageIfNeeded of src/server.js issues at most 3 GETs
\* and at most 3 HEADs for its source URL; a GET is issued in attempt i only
\* after the HEAD of attempt i (for a string that is no URL no request is
\* issued at all: there is no HEAD, and axios rejects each GET without a
\* status); the call sleeps at most twice, 300 ms after the first attempt and
\* 600 ms after the second, never after the third; and the counters of a call
\* start afresh whatever earlier calls and other requests have done.
C37_CallBudget ==
  \A c \in Reqs :
    LET cr == call[c]
    IN /\ cr.i \in 1..3 /\ cr.nGet <= 3 /\ cr.nHead <= 3
       /\ cr.nGet <= cr.i /\ cr.nHead <= cr.i
       /\ cr.delays \in {<<>>, <<300>>, <<300, 600>>}
       /\ Len(cr.delays) = IF cr.pc = "sleep" THEN cr.i ELSE cr.i - 1
       /\ cr.pc = "sleep" => cr.i < 3
       /\ cr.pc \in {"idle", "ensureDir"} =>
            cr.i = 1 /\ cr.nGet = 0 /\ cr.nHead = 0 /\ cr.delays = <<>>
       /\ cr.pc # "idle" /\ IsValidUrl(cr.sourceUrl) =>
            /\ cr.nGet <= cr.nHead
            /\ cr.pc = "get" => cr.nHead = cr.i /\ cr.nGet = cr.i - 1
            /\ cr.pc \in {"open", "pipe", "sleep"} => cr.nHead = cr.i /\ cr.nGet = cr.i
       /\ cr.pc # "idle" /\ ~IsValidUrl(cr.sourceUrl) =>
            /\ cr.nHead = 0
            /\ cr.last.op = "GET" => cr.last.st = NoStatus
            /\ cr.pc \notin {"open", "pipe", "hung"}

\* A call used its whole budget (3 HEADs, 3 GETs, sleeps of 300 and 600 ms) and
\* returned null; a later call for the same URL and key used a whole budget again.
C37_Witness ==
  \E c, d \in Reqs :
    /\ c # d /\ call[d].afterSame /\ call[d].sourceUrl = call[c].sourceUrl
    /\ call[c].pc = "returned" /\ call[c].nGet = 3 /\ call[c].nHead = 3
    /\ call[d].pc = "returned" /\ call[d].nGet = 3 /\ call[d].nHead = 3
    /\ call[c].delays = <<300, 600>> /\ call[d].delays = <<300, 600>>
    /\ call[c].result = Null /\ call[d].result = Null

====
